---- MODULE Spec2Model ----
(***************************************************************************)
(* A model of the B+ tree map of ngtcp2/treemap-go (package treemap).      *)
(*                                                                         *)
(* The heap is a sequence of node records; a pointer is an index into it   *)
(* and Nil (0) is the nil pointer.  Go arrays [maxNodes]T are sequences of *)
(* length maxNodes; the Go index i is the position i + 1.  Keys and values *)
(* are naturals, so the zero value of either is 0.                         *)
(*                                                                         *)
(* keyDegr is 16 in the source.  The model runs the same code with a       *)
(* smaller degree, so that splits, shifts, merges and changes of height    *)
(* happen with a handful of keys.                                          *)
(***************************************************************************)
EXTENDS Integers, Sequences, FiniteSets

\* ---------------------------------------------------------------- bounds
keyDegr == 2

\* The calls of the model.  A map is built as the tests build theirs, by
\* InsertRange: for i := range N { m.Insert(i, i) }, here over every
\* Stride-th key and with N up to BulkLen; then up to MaxOps calls that
\* change the map follow, and any number of calls that only read it.  The
\* calls take their keys from OpKeys (keys of the range, keys between them
\* and keys above them); the keys below NumVersioned are inserted with two
\* values, so that a replacement changes the stored value.
Stride == 3
BulkLen == 16
MaxOps == 3
OpStride == 7
OpWidth == 2
HighKeys == 2
NumVersioned == 2

maxNodes == 2 * keyDegr
minNodes == keyDegr

Nil == 0
MaxKey == Stride * (BulkLen - 1) + HighKeys
BulkKeys(N) == {Stride * i : i \in 0..(N - 1)}
OpKeys == {k \in 0..MaxKey : k % OpStride < OpWidth}

ValuesOf(k) == IF k < NumVersioned THEN {k, k + MaxKey + 1} ELSE {k}

\* ------------------------------------------------------- slices and arrays
\* the function f over 1..n as a sequence
RECURSIVE AsSeq(_, _)
AsSeq(f, n) == IF n = 0 THEN << >> ELSE Append(AsSeq(f, n - 1), f[n])

ZeroArr == AsSeq([i \in 1..maxNodes |-> 0], maxNodes)

\* a[lo:hi]
Slice(a, lo, hi) == IF hi <= lo THEN << >> ELSE SubSeq(a, lo + 1, hi)

\* copy(a[d:], src): copies min(len(a) - d, len(src)) elements
CopyTo(a, d, src) ==
    AsSeq([i \in 1..Len(a) |->
              IF i - 1 >= d /\ i - 1 - d < Len(src) THEN src[i - d] ELSE a[i]],
          Len(a))

\* clear(a[lo:hi])
ClearRange(a, lo, hi) ==
    AsSeq([i \in 1..Len(a) |-> IF i - 1 >= lo /\ i - 1 < hi THEN 0 ELSE a[i]],
          Len(a))

\* a[i] = x
SetAt(a, i, x) == SubSeq(a, 1, i) \o << x >> \o SubSeq(a, i + 2, Len(a))

\* ------------------------------------------------------------------ nodes
newLeafNode ==
    [leaf |-> TRUE, n |-> 0, keys |-> ZeroArr, values |-> ZeroArr,
     nodes |-> ZeroArr, next |-> Nil, prev |-> Nil]

newInternalNode ==
    [leaf |-> FALSE, n |-> 0, keys |-> ZeroArr, values |-> ZeroArr,
     nodes |-> ZeroArr, next |-> Nil, prev |-> Nil]

Keys(nd) == Slice(nd.keys, 0, nd.n)
\* KeysForFindAndRemove that returns all n routing keys
KeysForFindAndRemoveAll(nd) == Slice(nd.keys, 0, nd.n)
KeysForFindAndRemove(nd) == Slice(nd.keys, 0, nd.n - 1)
Size(nd) == nd.n
LastKey(nd) == nd.keys[nd.n]
IsFull(nd) == nd.n = maxNodes

\* ----------------------------------------------------------------- search
RECURSIVE linearScan(_, _, _)
linearScan(keys, target, i) ==
    IF i > Len(keys) THEN [i |-> Len(keys), ok |-> FALSE]
    ELSE IF keys[i] = target THEN [i |-> i - 1, ok |-> TRUE]
    ELSE IF keys[i] > target THEN [i |-> i - 1, ok |-> FALSE]
    ELSE linearScan(keys, target, i + 1)

linearSearchOrdered(keys, target) == linearScan(keys, target, 1)

search(keys, target) == linearSearchOrdered(keys, target)

compare(x, y) == IF x < y THEN -1 ELSE IF x > y THEN 1 ELSE 0

\* slices.BinarySearchFunc(keys, target, compare), the search of NewAny:
\* i, j := 0, n; for i < j { h := (i + j) >> 1; if cmp(x[h], target) < 0
\* { i = h + 1 } else { j = h } }; return i, i < n && cmp(x[i], target) == 0
RECURSIVE binaryScan(_, _, _, _)
\* binaryScan that also moves right past an equal key
binaryScanPastEqual(x, target, i, j) ==
    IF i < j
    THEN LET h == (i + j) \div 2
         IN  IF compare(x[h + 1], target) <= 0
             THEN binaryScan(x, target, h + 1, j)
             ELSE binaryScan(x, target, i, h)
    ELSE [i |-> i, ok |-> i < Len(x) /\ compare(x[i + 1], target) = 0]

binaryScan(x, target, i, j) ==
    IF i < j
    THEN LET h == (i + j) \div 2
         IN  IF compare(x[h + 1], target) < 0
             THEN binaryScan(x, target, h + 1, j)
             ELSE binaryScan(x, target, i, h)
    ELSE [i |-> i, ok |-> i < Len(x) /\ compare(x[i + 1], target) = 0]

BinarySearchFunc(x, target) == binaryScan(x, target, 0, Len(x))

\* m.search of a map made by NewAny
searchAny(keys, target) == BinarySearchFunc(keys, target)

\* ------------------------------------------------- internalNode methods
\* The working state s of an operation: the heap and the fields of Map.
\* s.ev collects the names of the restructuring steps the operation took
\* and s.panic is set by an index or slice expression out of range.

Ev(s, e) == [s EXCEPT !.ev = @ \cup {e}]

\* s.tr collects the calls the operation made on nodes, each with what the
\* nodes held when it was made: the pair of the name of the call and a record
Tr(s, call, rec) == [s EXCEPT !.tr = @ \cup {<< call, rec >>}]

\* the entries of node x in order: its keys, each with its value (leaf) or
\* its child (interior node)
Entries(s, x) ==
    AsSeq([i \in 1..s.heap[x].n |->
             << s.heap[x].keys[i],
                IF s.heap[x].leaf THEN s.heap[x].values[i] ELSE s.heap[x].nodes[i] >>],
          s.heap[x].n)

internalSplit(s, x) ==
    LET inode == s.heap[x]
        n     == inode.n
        rn    == inode.n \div 2
        ln    == inode.n - rn
        rnode == [newInternalNode EXCEPT
                    !.n = rn,
                    !.nodes = CopyTo(ZeroArr, 0, Slice(inode.nodes, ln, n)),
                    !.keys = CopyTo(ZeroArr, 0, Slice(inode.keys, ln, n))]
        lnode == [inode EXCEPT
                    !.n = ln,
                    !.nodes = ClearRange(inode.nodes, ln, n),
                    !.keys = ClearRange(inode.keys, ln, n)]
    IN  [s |-> [s EXCEPT !.heap = Append([s.heap EXCEPT ![x] = lnode], rnode)],
         rnode |-> Len(s.heap) + 1]

\* leafSplit that leaves the prev link of the old successor as it was
leafSplitStalePrev(s, t) ==
    LET tnode == s.heap[t]
        r     == Len(s.heap) + 1
        n     == tnode.n
        rn    == tnode.n \div 2
        ln    == tnode.n - rn
        rnode == [newLeafNode EXCEPT
                    !.next = tnode.next,
                    !.prev = t,
                    !.n = rn,
                    !.values = CopyTo(ZeroArr, 0, Slice(tnode.values, ln, n)),
                    !.keys = CopyTo(ZeroArr, 0, Slice(tnode.keys, ln, n))]
        lnode == [tnode EXCEPT
                    !.next = r,
                    !.n = ln,
                    !.values = ClearRange(tnode.values, ln, n),
                    !.keys = ClearRange(tnode.keys, ln, n)]
        b     == IF tnode.next = Nil /\ s.back = t THEN r ELSE s.back
    IN  [s |-> [s EXCEPT !.heap = Append([s.heap EXCEPT ![t] = lnode], rnode), !.back = b],
         rnode |-> r]

\* leafSplit that gives the new right sibling one entry less than half
leafSplitUneven(s, t) ==
    LET tnode == s.heap[t]
        r     == Len(s.heap) + 1
        n     == tnode.n
        rn    == tnode.n \div 2 - 1
        ln    == tnode.n - rn
        rnode == [newLeafNode EXCEPT
                    !.next = tnode.next,
                    !.prev = t,
                    !.n = rn,
                    !.values = CopyTo(ZeroArr, 0, Slice(tnode.values, ln, n)),
                    !.keys = CopyTo(ZeroArr, 0, Slice(tnode.keys, ln, n))]
        lnode == [tnode EXCEPT
                    !.next = r,
                    !.n = ln,
                    !.values = ClearRange(tnode.values, ln, n),
                    !.keys = ClearRange(tnode.keys, ln, n)]
        h1    == Append([s.heap EXCEPT ![t] = lnode], rnode)
        h2    == IF tnode.next # Nil THEN [h1 EXCEPT ![tnode.next].prev = r]
                 ELSE h1
        b     == IF tnode.next = Nil /\ s.back = t THEN r ELSE s.back
    IN  [s |-> [s EXCEPT !.heap = h2, !.back = b], rnode |-> r]

leafSplit(s, t) ==
    LET tnode == s.heap[t]
        r     == Len(s.heap) + 1
        n     == tnode.n
        rn    == tnode.n \div 2
        ln    == tnode.n - rn
        rnode == [newLeafNode EXCEPT
                    !.next = tnode.next,
                    !.prev = t,
                    !.n = rn,
                    !.values = CopyTo(ZeroArr, 0, Slice(tnode.values, ln, n)),
                    !.keys = CopyTo(ZeroArr, 0, Slice(tnode.keys, ln, n))]
        lnode == [tnode EXCEPT
                    !.next = r,
                    !.n = ln,
                    !.values = ClearRange(tnode.values, ln, n),
                    !.keys = ClearRange(tnode.keys, ln, n)]
        h1    == Append([s.heap EXCEPT ![t] = lnode], rnode)
        h2    == IF tnode.next # Nil THEN [h1 EXCEPT ![tnode.next].prev = r]
                 ELSE h1
        b     == IF tnode.next = Nil /\ s.back = t THEN r ELSE s.back
    IN  [s |-> [s EXCEPT !.heap = h2, !.back = b], rnode |-> r]

\* node x was split in s, which gave sp: the size it had, the sizes of the
\* two halves, and whether x keeps the lower size - size / 2 entries and the
\* new right sibling holds the upper size / 2 in order
SplitCall(s, sp, x) ==
    [sp EXCEPT !.s =
        Tr(sp.s, "Split",
           [size |-> s.heap[x].n,
            lsz |-> sp.s.heap[x].n,
            rsz |-> sp.s.heap[sp.rnode].n,
            leaf |-> s.heap[x].leaf,
            lower |-> Entries(sp.s, x)
                        = SubSeq(Entries(s, x), 1, s.heap[x].n - s.heap[x].n \div 2),
            upper |-> Entries(sp.s, sp.rnode)
                        = SubSeq(Entries(s, x),
                                 s.heap[x].n - s.heap[x].n \div 2 + 1, s.heap[x].n)])]

\* node.Split(m): the new right sibling is allocated at the end of the heap
Split(s, x) ==
    SplitCall(s, IF s.heap[x].leaf THEN leafSplit(s, x) ELSE internalSplit(s, x), x)

\* SplitAt that hangs the two halves under a new interior node in the slot
\* of the split child, the way splitRoot does for the root
SplitAtNests(sp, x, idx, lnode) ==
    LET s1   == sp.s
        r    == Len(s1.heap) + 1
        wrap == [newInternalNode EXCEPT
                   !.n = 2,
                   !.keys = SetAt(SetAt(ZeroArr, 0, LastKey(s1.heap[lnode])),
                                  1, LastKey(s1.heap[sp.rnode])),
                   !.nodes = SetAt(SetAt(ZeroArr, 0, lnode), 1, sp.rnode)]
    IN  Ev([s1 EXCEPT !.heap = Append([s1.heap EXCEPT ![x].nodes = SetAt(@, idx, r)], wrap)],
           IF s1.heap[lnode].leaf THEN "splitLeaf" ELSE "splitInternal")

\* SplitAt after lnode.Split(m): sp is the state and the new right sibling
SplitAtLink(sp, x, idx, lnode) ==
    LET s1    == sp.s
        inode == s1.heap[x]
        nodes1 == CopyTo(inode.nodes, idx + 2, Slice(inode.nodes, idx + 1, inode.n))
        keys1  == CopyTo(inode.keys, idx + 1, Slice(inode.keys, idx, inode.n))
        inode2 == [inode EXCEPT
                     !.nodes = SetAt(nodes1, idx + 1, sp.rnode),
                     !.n = inode.n + 1,
                     !.keys = SetAt(keys1, idx, LastKey(s1.heap[lnode]))]
    IN  Ev([s1 EXCEPT !.heap[x] = inode2],
           IF s1.heap[lnode].leaf THEN "splitLeaf" ELSE "splitInternal")

\* inode.SplitAt(idx, m) is called: the sizes of inode and of the child at idx
SplitAtCall(s, x, idx) ==
    Tr(s, "SplitAt", [size |-> s.heap[x].n, child |-> s.heap[s.heap[x].nodes[idx + 1]].n])

SplitAt(s, x, idx) ==
    IF idx + 1 >= maxNodes
    THEN [SplitAtCall(s, x, idx) EXCEPT !.panic = TRUE]
    ELSE SplitAtLink(Split(SplitAtCall(s, x, idx), s.heap[x].nodes[idx + 1]),
                     x, idx, s.heap[x].nodes[idx + 1])

internalMerge(s, l, r) ==
    LET inode == s.heap[l]
        rnode == s.heap[r]
    IN  [s EXCEPT !.heap[l] =
            [inode EXCEPT
               !.nodes = CopyTo(inode.nodes, inode.n, Slice(rnode.nodes, 0, rnode.n)),
               !.keys = CopyTo(inode.keys, inode.n, Slice(rnode.keys, 0, rnode.n)),
               !.n = inode.n + rnode.n]]

\* leafMerge that leaves the next pointer of the left leaf as it was
leafMergeStaleNext(s, l, r) ==
    LET tnode == s.heap[l]
        rnode == s.heap[r]
        h1 == [s.heap EXCEPT ![l] =
                 [tnode EXCEPT
                    !.values = CopyTo(tnode.values, tnode.n, Slice(rnode.values, 0, rnode.n)),
                    !.keys = CopyTo(tnode.keys, tnode.n, Slice(rnode.keys, 0, rnode.n)),
                    !.n = tnode.n + rnode.n]]
    IN  IF rnode.next # Nil
        THEN [s EXCEPT !.heap = [h1 EXCEPT ![rnode.next].prev = l]]
        ELSE [s EXCEPT !.heap = h1, !.back = l]

leafMerge(s, l, r) ==
    LET tnode == s.heap[l]
        rnode == s.heap[r]
        h1 == [s.heap EXCEPT ![l] =
                 [tnode EXCEPT
                    !.values = CopyTo(tnode.values, tnode.n, Slice(rnode.values, 0, rnode.n)),
                    !.keys = CopyTo(tnode.keys, tnode.n, Slice(rnode.keys, 0, rnode.n)),
                    !.n = tnode.n + rnode.n,
                    !.next = rnode.next]]
    IN  IF rnode.next # Nil
        THEN [s EXCEPT !.heap = [h1 EXCEPT ![rnode.next].prev = l]]
        ELSE [s EXCEPT !.heap = h1, !.back = l]

Merge(s, l, r) == IF s.heap[l].leaf THEN leafMerge(s, l, r) ELSE internalMerge(s, l, r)

internalRemoveAt(s, x, i) ==
    LET inode == s.heap[x]
    IN  [s EXCEPT !.heap[x] =
            [inode EXCEPT
               !.nodes = ClearRange(CopyTo(inode.nodes, i, Slice(inode.nodes, i + 1, inode.n)),
                                    inode.n - 1, inode.n),
               !.keys = ClearRange(CopyTo(inode.keys, i, Slice(inode.keys, i + 1, inode.n)),
                                   inode.n - 1, inode.n),
               !.n = inode.n - 1]]

\* leafRemoveAt that removes the entry before i
leafRemoveAtPrev(s, x, i) ==
    LET tnode == s.heap[x]
        j     == IF i > 0 THEN i - 1 ELSE i
    IN  [s EXCEPT !.heap[x] =
            [tnode EXCEPT
               !.values = ClearRange(CopyTo(tnode.values, j, Slice(tnode.values, j + 1, tnode.n)),
                                     tnode.n - 1, tnode.n),
               !.keys = ClearRange(CopyTo(tnode.keys, j, Slice(tnode.keys, j + 1, tnode.n)),
                                   tnode.n - 1, tnode.n),
               !.n = tnode.n - 1]]

\* leafRemoveAt without the two clear calls
leafRemoveAtNoClear(s, x, i) ==
    LET tnode == s.heap[x]
    IN  [s EXCEPT !.heap[x] =
            [tnode EXCEPT
               !.values = CopyTo(tnode.values, i, Slice(tnode.values, i + 1, tnode.n)),
               !.keys = CopyTo(tnode.keys, i, Slice(tnode.keys, i + 1, tnode.n)),
               !.n = tnode.n - 1]]

leafRemoveAt(s, x, i) ==
    LET tnode == s.heap[x]
    IN  [s EXCEPT !.heap[x] =
            [tnode EXCEPT
               !.values = ClearRange(CopyTo(tnode.values, i, Slice(tnode.values, i + 1, tnode.n)),
                                     tnode.n - 1, tnode.n),
               !.keys = ClearRange(CopyTo(tnode.keys, i, Slice(tnode.keys, i + 1, tnode.n)),
                                   tnode.n - 1, tnode.n),
               !.n = tnode.n - 1]]

internalShiftLeft(s, l, r, n) ==
    LET inode == s.heap[l]
        rnode == s.heap[r]
    IN  [s EXCEPT
           !.heap[l] =
              [inode EXCEPT
                 !.nodes = CopyTo(inode.nodes, inode.n, Slice(rnode.nodes, 0, n)),
                 !.keys = CopyTo(inode.keys, inode.n, Slice(rnode.keys, 0, n)),
                 !.n = inode.n + n],
           !.heap[r] =
              [rnode EXCEPT
                 !.nodes = ClearRange(CopyTo(rnode.nodes, 0, Slice(rnode.nodes, n, rnode.n)),
                                      rnode.n - n, rnode.n),
                 !.keys = ClearRange(CopyTo(rnode.keys, 0, Slice(rnode.keys, n, rnode.n)),
                                     rnode.n - n, rnode.n),
                 !.n = rnode.n - n]]

\* leafShiftLeft that does not count the moved entries in the left leaf
leafShiftLeftShort(s, l, r, n) ==
    LET tnode == s.heap[l]
        rnode == s.heap[r]
    IN  [s EXCEPT
           !.heap[l] =
              [tnode EXCEPT
                 !.values = CopyTo(tnode.values, tnode.n, Slice(rnode.values, 0, n)),
                 !.keys = CopyTo(tnode.keys, tnode.n, Slice(rnode.keys, 0, n))],
           !.heap[r] =
              [rnode EXCEPT
                 !.values = ClearRange(CopyTo(rnode.values, 0, Slice(rnode.values, n, rnode.n)),
                                       rnode.n - n, rnode.n),
                 !.keys = ClearRange(CopyTo(rnode.keys, 0, Slice(rnode.keys, n, rnode.n)),
                                     rnode.n - n, rnode.n),
                 !.n = rnode.n - n]]

leafShiftLeft(s, l, r, n) ==
    LET tnode == s.heap[l]
        rnode == s.heap[r]
    IN  [s EXCEPT
           !.heap[l] =
              [tnode EXCEPT
                 !.values = CopyTo(tnode.values, tnode.n, Slice(rnode.values, 0, n)),
                 !.keys = CopyTo(tnode.keys, tnode.n, Slice(rnode.keys, 0, n)),
                 !.n = tnode.n + n],
           !.heap[r] =
              [rnode EXCEPT
                 !.values = ClearRange(CopyTo(rnode.values, 0, Slice(rnode.values, n, rnode.n)),
                                       rnode.n - n, rnode.n),
                 !.keys = ClearRange(CopyTo(rnode.keys, 0, Slice(rnode.keys, n, rnode.n)),
                                     rnode.n - n, rnode.n),
                 !.n = rnode.n - n]]

ShiftLeft(s, l, r, n) ==
    IF s.heap[l].leaf THEN leafShiftLeft(s, l, r, n) ELSE internalShiftLeft(s, l, r, n)

internalShiftRight(s, l, r, n) ==
    LET inode == s.heap[l]
        rnode == s.heap[r]
    IN  [s EXCEPT
           !.heap[r] =
              [rnode EXCEPT
                 !.nodes = CopyTo(CopyTo(rnode.nodes, n, Slice(rnode.nodes, 0, rnode.n)),
                                  0, Slice(inode.nodes, inode.n - n, inode.n)),
                 !.keys = CopyTo(CopyTo(rnode.keys, n, Slice(rnode.keys, 0, rnode.n)),
                                 0, Slice(inode.keys, inode.n - n, inode.n)),
                 !.n = rnode.n + n],
           !.heap[l] =
              [inode EXCEPT
                 !.nodes = ClearRange(inode.nodes, inode.n - n, inode.n),
                 !.keys = ClearRange(inode.keys, inode.n - n, inode.n),
                 !.n = inode.n - n]]

\* leafShiftRight that moves the first n values with the last n keys
leafShiftRightValues(s, l, r, n) ==
    LET tnode == s.heap[l]
        rnode == s.heap[r]
    IN  [s EXCEPT
           !.heap[r] =
              [rnode EXCEPT
                 !.values = CopyTo(CopyTo(rnode.values, n, Slice(rnode.values, 0, rnode.n)),
                                   0, Slice(tnode.values, 0, n)),
                 !.keys = CopyTo(CopyTo(rnode.keys, n, Slice(rnode.keys, 0, rnode.n)),
                                 0, Slice(tnode.keys, tnode.n - n, tnode.n)),
                 !.n = rnode.n + n],
           !.heap[l] =
              [tnode EXCEPT
                 !.values = ClearRange(tnode.values, tnode.n - n, tnode.n),
                 !.keys = ClearRange(tnode.keys, tnode.n - n, tnode.n),
                 !.n = tnode.n - n]]

leafShiftRight(s, l, r, n) ==
    LET tnode == s.heap[l]
        rnode == s.heap[r]
    IN  [s EXCEPT
           !.heap[r] =
              [rnode EXCEPT
                 !.values = CopyTo(CopyTo(rnode.values, n, Slice(rnode.values, 0, rnode.n)),
                                   0, Slice(tnode.values, tnode.n - n, tnode.n)),
                 !.keys = CopyTo(CopyTo(rnode.keys, n, Slice(rnode.keys, 0, rnode.n)),
                                 0, Slice(tnode.keys, tnode.n - n, tnode.n)),
                 !.n = rnode.n + n],
           !.heap[l] =
              [tnode EXCEPT
                 !.values = ClearRange(tnode.values, tnode.n - n, tnode.n),
                 !.keys = ClearRange(tnode.keys, tnode.n - n, tnode.n),
                 !.n = tnode.n - n]]

ShiftRight(s, l, r, n) ==
    IF s.heap[l].leaf THEN leafShiftRight(s, l, r, n) ELSE internalShiftRight(s, l, r, n)

\* InsertAt that stores the pair one slot to the left of idx (slot 0 for idx 0)
InsertAtBefore(s, x, idx, key, value) ==
    LET tnode == s.heap[x]
        j     == IF idx = 0 THEN 0 ELSE idx - 1
    IN  IF idx >= maxNodes
        THEN [s EXCEPT !.panic = TRUE]
        ELSE [s EXCEPT !.heap[x] =
                [tnode EXCEPT
                   !.values = SetAt(CopyTo(tnode.values, j + 1,
                                           Slice(tnode.values, j, tnode.n)), j, value),
                   !.keys = SetAt(CopyTo(tnode.keys, j + 1,
                                         Slice(tnode.keys, j, tnode.n)), j, key),
                   !.n = tnode.n + 1]]

\* tnode.InsertAt(idx, key, value) is called: the size of tnode
InsertAtCall(s, x, idx) == Tr(s, "InsertAt", [size |-> s.heap[x].n, idx |-> idx])

InsertAt(s, x, idx, key, value) ==
    LET tnode == s.heap[x]
    IN  IF idx >= maxNodes
        THEN [InsertAtCall(s, x, idx) EXCEPT !.panic = TRUE]
        ELSE [InsertAtCall(s, x, idx) EXCEPT !.heap[x] =
                [tnode EXCEPT
                   !.values = SetAt(CopyTo(tnode.values, idx + 1,
                                           Slice(tnode.values, idx, tnode.n)), idx, value),
                   !.keys = SetAt(CopyTo(tnode.keys, idx + 1,
                                         Slice(tnode.keys, idx, tnode.n)), idx, key),
                   !.n = tnode.n + 1]]

\* ------------------------------------------------------------ Map methods
\* splitRoot after m.root.Split(m): sp is the state and the new right sibling
splitRootLink(sp, lnode) ==
    LET s1    == sp.s
        r     == Len(s1.heap) + 1
        root  == [newInternalNode EXCEPT
                    !.n = 2,
                    !.keys = SetAt(SetAt(ZeroArr, 0, LastKey(s1.heap[lnode])),
                                   1, LastKey(s1.heap[sp.rnode])),
                    !.nodes = SetAt(SetAt(ZeroArr, 0, lnode), 1, sp.rnode)]
    IN  Ev([s1 EXCEPT !.heap = Append(s1.heap, root), !.root = r], "splitRoot")

\* the number of levels of the tree under x: 1 for a leaf
RECURSIVE Levels(_, _)
Levels(h, x) == IF h[x].leaf THEN 1 ELSE 1 + Levels(h, h[x].nodes[1])

Height(s) == Levels(s.heap, s.root)

\* m.splitRoot() was called in s and left s2: the size of the old root, the
\* height before and after, and what the new root is
splitRootCall(s, s2) ==
    Tr(s2, "splitRoot",
       [size |-> s.heap[s.root].n,
        before |-> Height(s),
        after |-> Height(s2),
        interior |-> ~s2.heap[s2.root].leaf,
        n |-> s2.heap[s2.root].n,
        left |-> s2.heap[s2.root].nodes[1] = s.root,
        fresh |-> s2.heap[s2.root].nodes[2] > Len(s.heap) /\ s2.root > Len(s.heap),
        halves |-> Entries(s2, s2.heap[s2.root].nodes[1])
                     \o Entries(s2, s2.heap[s2.root].nodes[2]) = Entries(s, s.root),
        keys |-> \A i \in 1..2 :
                    s2.heap[s2.root].keys[i] = LastKey(s2.heap[s2.heap[s2.root].nodes[i]])])

splitRoot(s) == splitRootCall(s, splitRootLink(Split(s, s.root), s.root))

\* Insert, the walk down the right spine (map.go, the inner for loop)
RECURSIVE InsertSpine(_, _, _, _)
\* InsertSpineDown whose iterator is taken after InsertAt
InsertSpineDownItAfter(s1, x, key, value) ==
    LET n1    == s1.heap[x].n
        node  == s1.heap[x].nodes[n1]
        s2    == [s1 EXCEPT !.heap[x].keys = SetAt(@, n1 - 1, key)]
        idx   == s2.heap[node].n
    IN  IF s1.panic THEN [s |-> s1, it |-> [node |-> Nil, idx |-> 0], old |-> 0, ok |-> FALSE]
        ELSE IF ~s2.heap[node].leaf THEN InsertSpine(s2, node, key, value)
        ELSE [s   |-> [InsertAt(s2, node, idx, key, value) EXCEPT !.n = @ + 1],
              it  |-> [node |-> node, idx |-> idx + 1],
              old |-> 0,
              ok  |-> FALSE]

\* InsertSpineDown that leaves the last routing key as it was
InsertSpineDownKeepsKey(s1, x, key, value) ==
    LET n1    == s1.heap[x].n
        node  == s1.heap[x].nodes[n1]
        s2    == s1
        idx   == s2.heap[node].n
    IN  IF s1.panic THEN [s |-> s1, it |-> [node |-> Nil, idx |-> 0], old |-> 0, ok |-> FALSE]
        ELSE IF ~s2.heap[node].leaf THEN InsertSpine(s2, node, key, value)
        ELSE [s   |-> [InsertAt(s2, node, idx, key, value) EXCEPT !.n = @ + 1],
              it  |-> [node |-> node, idx |-> idx],
              old |-> 0,
              ok  |-> FALSE]

\* one round of the inner loop after the split of a full last child: the
\* last key becomes key, and the walk goes on or inserts at the end of the leaf
InsertSpineDown(s1, x, key, value) ==
    LET n1    == s1.heap[x].n
        node  == s1.heap[x].nodes[n1]
        s2    == [s1 EXCEPT !.heap[x].keys = SetAt(@, n1 - 1, key)]
        idx   == s2.heap[node].n
    IN  IF s1.panic THEN [s |-> s1, it |-> [node |-> Nil, idx |-> 0], old |-> 0, ok |-> FALSE]
        ELSE IF ~s2.heap[node].leaf THEN InsertSpine(s2, node, key, value)
        ELSE [s   |-> [InsertAt(s2, node, idx, key, value) EXCEPT !.n = @ + 1],
              it  |-> [node |-> node, idx |-> idx],
              old |-> 0,
              ok  |-> FALSE]

InsertSpine(s, x, key, value) ==
    InsertSpineDown(IF IsFull(s.heap[s.heap[x].nodes[s.heap[x].n]])
                    THEN SplitAt(s, x, s.heap[x].n - 1)
                    ELSE s,
                    x, key, value)

\* the keys stored in the leaves reachable through node x
RECURSIVE KeysUnder(_, _)
KeysUnder(s, x) ==
    IF s.heap[x].leaf THEN {s.heap[x].keys[i] : i \in 1..s.heap[x].n}
    ELSE UNION {KeysUnder(s, s.heap[x].nodes[i]) : i \in 1..s.heap[x].n}

\* the nodes met from x by following the last child down to a leaf
RECURSIVE RightSpine(_, _)
RightSpine(s, x) ==
    IF s.heap[x].leaf THEN << x >>
    ELSE << x >> \o RightSpine(s, s.heap[x].nodes[s.heap[x].n])

\* the inner loop of Insert was entered at node in s and returned r: whether
\* node was the root and key above every key under it, what r reports, and
\* whether r left key at the end of the last leaf under node and as the
\* last routing key of every interior node from node down
spineCall(s, r, node, key) ==
    [r EXCEPT !.s =
        Tr(r.s, "spine",
           [isroot |-> node = s.root,
            above |-> \A k \in KeysUnder(s, node) : k < key,
            grown |-> r.s.n - s.n,
            replaced |-> r.ok,
            atend |-> /\ r.it.node = RightSpine(r.s, node)[Len(RightSpine(r.s, node))]
                      /\ r.it.idx + 1 = r.s.heap[r.it.node].n
                      /\ r.s.heap[r.it.node].keys[r.it.idx + 1] = key,
            routed |-> \A i \in 1..Len(RightSpine(r.s, node)) :
                          LastKey(r.s.heap[RightSpine(r.s, node)[i]]) = key])]

\* Insert, the descent from node (map.go, the outer for loop)
RECURSIVE InsertLoop(_, _, _, _)
\* the descent after the split of a full child at i: into the new right
\* sibling when the routing key at i is less than key
\* descendInto that stays with the left half after a split
descendIntoLeft(s1, node, i, descNode, full, key) == descNode

\* the child Insert goes on with at index i of node: after the split of a
\* full child the new right sibling when the routing key at i is less than
\* key

descendInto(s1, node, i, descNode, full, key) ==
    IF full /\ compare(s1.heap[node].keys[i + 1], key) < 0
    THEN s1.heap[node].nodes[i + 2]
    ELSE descNode

\* the full child at i of node was split in s, which gave s1, and the
\* descent into the child into returned r: which half was entered, how the
\* routing key at i compares with key, what the entries at i and i + 1 of
\* node are, and whether key is stored under the half entered
splitDescend(s, s1, node, i, full, key, into, r) ==
    IF ~full THEN r
    ELSE [r EXCEPT !.s =
             Tr(r.s, "splitDescend",
                [right |-> into = s1.heap[node].nodes[i + 2],
                 left |-> into = s1.heap[node].nodes[i + 1],
                 less |-> s1.heap[node].keys[i + 1] < key,
                 lastleft |-> s1.heap[node].keys[i + 1]
                                = LastKey(s1.heap[s1.heap[node].nodes[i + 1]]),
                 halves |-> /\ s1.heap[node].nodes[i + 1] = s.heap[node].nodes[i + 1]
                            /\ s1.heap[node].nodes[i + 2] > Len(s.heap),
                 former |-> s1.heap[node].keys[i + 2] = s.heap[node].keys[i + 1],
                 under |-> key \in KeysUnder(r.s, into)])]

InsertInto(s, s1, node, i, descNode, full, key, value) ==
    IF s1.panic
    THEN [s |-> s1, it |-> [node |-> Nil, idx |-> 0], old |-> 0, ok |-> FALSE]
    ELSE splitDescend(s, s1, node, i, full, key,
                      descendInto(s1, node, i, descNode, full, key),
                      InsertLoop(s1, descendInto(s1, node, i, descNode, full, key),
                                 key, value))

\* InsertLoop that counts a replacement as an insertion
InsertLoopCounts(s, node, key, value) ==
    IF s.heap[node].leaf
    THEN LET tnode == s.heap[node]
             r     == search(Keys(tnode), key)
         IN  IF r.ok
             THEN [s   |-> [s EXCEPT !.heap[node].values = SetAt(@, r.i, value),
                                     !.n = @ + 1],
                   it  |-> [node |-> node, idx |-> r.i],
                   old |-> tnode.values[r.i + 1],
                   ok  |-> TRUE]
             ELSE [s   |-> [InsertAt(s, node, r.i, key, value) EXCEPT !.n = @ + 1],
                   it  |-> [node |-> node, idx |-> r.i],
                   old |-> 0,
                   ok  |-> FALSE]
    ELSE LET inode == s.heap[node]
             i     == search(Keys(inode), key).i
         IN  IF i = inode.n
             THEN InsertSpine(Ev(s, "spine"), node, key, value)
             ELSE InsertInto(s,
                             IF IsFull(s.heap[inode.nodes[i + 1]])
                             THEN SplitAt(s, node, i)
                             ELSE s,
                             node, i, inode.nodes[i + 1],
                             IsFull(s.heap[inode.nodes[i + 1]]), key, value)

\* InsertLoop that enters the inner loop for a key above all but the last
\* routing key
InsertLoopSpineEarly(s, node, key, value) ==
    IF s.heap[node].leaf
    THEN LET tnode == s.heap[node]
             r     == search(Keys(tnode), key)
         IN  IF r.ok
             THEN [s   |-> [s EXCEPT !.heap[node].values = SetAt(@, r.i, value)],
                   it  |-> [node |-> node, idx |-> r.i],
                   old |-> tnode.values[r.i + 1],
                   ok  |-> TRUE]
             ELSE [s   |-> [InsertAt(s, node, r.i, key, value) EXCEPT !.n = @ + 1],
                   it  |-> [node |-> node, idx |-> r.i],
                   old |-> 0,
                   ok  |-> FALSE]
    ELSE LET inode == s.heap[node]
             i     == search(Keys(inode), key).i
         IN  IF i >= inode.n - 1
             THEN spineCall(s, InsertSpine(Ev(s, "spine"), node, key, value), node, key)
             ELSE InsertInto(s,
                             IF IsFull(s.heap[inode.nodes[i + 1]])
                             THEN SplitAt(s, node, i)
                             ELSE s,
                             node, i, inode.nodes[i + 1],
                             IsFull(s.heap[inode.nodes[i + 1]]), key, value)

InsertLoop(s, node, key, value) ==
    IF s.heap[node].leaf
    THEN LET tnode == s.heap[node]
             r     == search(Keys(tnode), key)
         IN  IF r.ok
             THEN [s   |-> [s EXCEPT !.heap[node].values = SetAt(@, r.i, value)],
                   it  |-> [node |-> node, idx |-> r.i],
                   old |-> tnode.values[r.i + 1],
                   ok  |-> TRUE]
             ELSE [s   |-> [InsertAt(s, node, r.i, key, value) EXCEPT !.n = @ + 1],
                   it  |-> [node |-> node, idx |-> r.i],
                   old |-> 0,
                   ok  |-> FALSE]
    ELSE LET inode == s.heap[node]
             i     == search(Keys(inode), key).i
         IN  IF i = inode.n
             THEN spineCall(s, InsertSpine(Ev(s, "spine"), node, key, value), node, key)
             ELSE InsertInto(s,
                             IF IsFull(s.heap[inode.nodes[i + 1]])
                             THEN SplitAt(s, node, i)
                             ELSE s,
                             node, i, inode.nodes[i + 1],
                             IsFull(s.heap[inode.nodes[i + 1]]), key, value)

\* the descent from the root, after a full root was split
InsertFromRoot(s1, key, value) == InsertLoop(s1, s1.root, key, value)

\* Insert that does not split a full root first
InsertIntoFullRoot(s, key, value) == InsertFromRoot(s, key, value)

\* Insert that splits a root that is one entry short of full
InsertSplitsEarly(s, key, value) ==
    InsertFromRoot(IF s.heap[s.root].n >= maxNodes - 1 THEN splitRoot(s) ELSE s, key, value)

Insert(s, key, value) ==
    InsertFromRoot(IF IsFull(s.heap[s.root]) THEN splitRoot(s) ELSE s, key, value)

RECURSIVE FindLoop(_, _, _)
\* FindLoop that takes the child to the right of a routing key equal to key
FindLoopSeparator(s, node, key) ==
    IF s.heap[node].leaf
    THEN LET tnode == s.heap[node]
             r     == search(Keys(tnode), key)
         IN  IF ~r.ok THEN [value |-> 0, ok |-> FALSE]
             ELSE [value |-> tnode.values[r.i + 1], ok |-> TRUE]
    ELSE LET inode == s.heap[node]
             r     == search(KeysForFindAndRemove(inode), key)
             i     == IF r.ok THEN r.i + 1 ELSE r.i
         IN  FindLoop(s, inode.nodes[i + 1], key)

FindLoop(s, node, key) ==
    IF s.heap[node].leaf
    THEN LET tnode == s.heap[node]
             r     == search(Keys(tnode), key)
         IN  IF ~r.ok THEN [value |-> 0, ok |-> FALSE]
             ELSE [value |-> tnode.values[r.i + 1], ok |-> TRUE]
    ELSE LET inode == s.heap[node]
             i     == search(KeysForFindAndRemove(inode), key).i
         IN  FindLoop(s, inode.nodes[i + 1], key)

Find(s, key) == FindLoop(s, s.root, key)

RECURSIVE LowerBoundLoop(_, _, _)
\* LowerBoundLoop that stays in the leaf it was routed to
LowerBoundLoopSameLeaf(s, node, key) ==
    IF s.heap[node].leaf
    THEN LET tnode == s.heap[node]
             i     == search(Keys(tnode), key).i
         IN  [node |-> node, idx |-> i]
    ELSE LET inode == s.heap[node]
             i     == search(KeysForFindAndRemove(inode), key).i
         IN  LowerBoundLoop(s, inode.nodes[i + 1], key)

LowerBoundLoop(s, node, key) ==
    IF s.heap[node].leaf
    THEN LET tnode == s.heap[node]
             i     == search(Keys(tnode), key).i
         IN  IF i = tnode.n /\ tnode.next # Nil
             THEN [node |-> tnode.next, idx |-> 0]
             ELSE [node |-> node, idx |-> i]
    ELSE LET inode == s.heap[node]
             i     == search(KeysForFindAndRemove(inode), key).i
         IN  LowerBoundLoop(s, inode.nodes[i + 1], key)

LowerBound(s, key) == LowerBoundLoop(s, s.root, key)

\* the nodes Find and LowerBound visit for key from node down: at an
\* interior node the child at search(inode.KeysForFindAndRemove(), key)
RECURSIVE Descent(_, _, _)
Descent(s, node, key) ==
    IF node \notin 1..Len(s.heap) THEN << >>
    ELSE IF s.heap[node].leaf THEN << node >>
    ELSE << node >>
           \o Descent(s, s.heap[node].nodes[
                            search(KeysForFindAndRemove(s.heap[node]), key).i + 1], key)

\* mergeNode after lnode.Merge(rnode, m): the root collapses into lnode, or
\* node loses the child at i + 1 and routes to lnode by its last key
\* mergeNode that leaves the routing key of the merged node as it was
mergeNodeKeepsKey(s1, node, i, lnode, ev) ==
    IF s1.root = node /\ s1.heap[node].n = 2
    THEN Ev([s1 EXCEPT !.root = lnode], "collapse")
    ELSE Ev(internalRemoveAt(s1, node, i + 1), ev)

\* mergeNode that takes the merged (left) node out of the parent
mergeNodeUnlinkLeft(s1, node, i, lnode, ev) ==
    IF s1.root = node /\ s1.heap[node].n = 2
    THEN Ev([s1 EXCEPT !.root = lnode], "collapse")
    ELSE LET s3 == internalRemoveAt(s1, node, i)
         IN  Ev([s3 EXCEPT !.heap[node].keys = SetAt(@, i, LastKey(s3.heap[lnode]))], ev)

\* mergeNode that keeps a root of two children as the root
mergeNodeNoCollapse(s1, node, i, lnode, ev) ==
    LET s3 == internalRemoveAt(s1, node, i + 1)
    IN  Ev([s3 EXCEPT !.heap[node].keys = SetAt(@, i, LastKey(s3.heap[lnode]))], ev)

mergeNodeUnlink(s1, node, i, lnode, ev) ==
    IF s1.root = node /\ s1.heap[node].n = 2
    THEN Ev([s1 EXCEPT !.root = lnode], "collapse")
    ELSE LET s3 == internalRemoveAt(s1, node, i + 1)
         IN  Ev([s3 EXCEPT !.heap[node].keys = SetAt(@, i, LastKey(s3.heap[lnode]))], ev)

\* m.mergeNode(node, i) was called in s and left s2: the sizes of the two
\* siblings and of node before, of the merged node and of node after, and
\* whether the merged node holds the entries of the left then of the right
\* sibling and node lost exactly the child at i + 1
mergeNodeCall(s, s2, node, i, lnode, rnode) ==
    Tr(s2, "mergeNode",
       [lsz |-> Size(s.heap[lnode]),
        rsz |-> Size(s.heap[rnode]),
        msz |-> Size(s2.heap[lnode]),
        parent |-> Size(s.heap[node]),
        after |-> Size(s2.heap[node]),
        isroot |-> s.root = node,
        collapsed |-> s2.root = lnode,
        inorder |-> Entries(s2, lnode) = Entries(s, lnode) \o Entries(s, rnode),
        spliced |-> \/ s2.root = lnode
                    \/ /\ Size(s2.heap[node]) = Size(s.heap[node]) - 1
                       /\ [e \in 1..Size(s2.heap[node]) |-> Entries(s2, node)[e][2]]
                            = [e \in 1..Size(s2.heap[node]) |->
                                 Entries(s, node)[IF e <= i + 1 THEN e ELSE e + 1][2]]])

\* returns the state and the merged node
mergeNode(s, node, i) ==
    [s     |-> mergeNodeCall(s,
                 mergeNodeUnlink(Merge(s, s.heap[node].nodes[i + 1], s.heap[node].nodes[i + 2]),
                                 node, i, s.heap[node].nodes[i + 1],
                                 IF s.heap[s.heap[node].nodes[i + 1]].leaf
                                 THEN "mergeLeaf" ELSE "mergeInternal"),
                 node, i, s.heap[node].nodes[i + 1], s.heap[node].nodes[i + 2]),
     lnode |-> s.heap[node].nodes[i + 1]]

\* shiftLeft that leaves the routing key of the left node as it was
shiftLeftKeepsKey(s, node, i) ==
    LET lnode == s.heap[node].nodes[i]
        rnode == s.heap[node].nodes[i + 1]
        n     == (Size(s.heap[lnode]) + Size(s.heap[rnode]) + 1) \div 2 - Size(s.heap[lnode])
    IN  Ev(ShiftLeft(s, lnode, rnode, n),
           IF s.heap[lnode].leaf THEN "shiftLeftLeaf" ELSE "shiftLeftInternal")

\* m.shiftLeft or m.shiftRight was called in s and left s2: the sizes of
\* the two siblings before and after, and whether their entries, left then
\* right, are the same sequence as before
shiftCall(call, s, s2, lnode, rnode) ==
    Tr(s2, call,
       [lsz |-> Size(s.heap[lnode]),
        rsz |-> Size(s.heap[rnode]),
        lafter |-> Size(s2.heap[lnode]),
        rafter |-> Size(s2.heap[rnode]),
        inorder |-> Entries(s2, lnode) \o Entries(s2, rnode)
                      = Entries(s, lnode) \o Entries(s, rnode)])

\* lnode.ShiftLeft(rnode, n); node.keys[i-1] = lnode.LastKey()
shiftLeftBy(s, node, i, n) ==
    LET lnode == s.heap[node].nodes[i]
        rnode == s.heap[node].nodes[i + 1]
        s1    == ShiftLeft(s, lnode, rnode, n)
    IN  shiftCall("shiftLeft", s,
                  Ev([s1 EXCEPT !.heap[node].keys = SetAt(@, i - 1, LastKey(s1.heap[lnode]))],
                     IF s.heap[lnode].leaf THEN "shiftLeftLeaf" ELSE "shiftLeftInternal"),
                  lnode, rnode)

\* shiftLeft that rounds the size of the left node up from (Lsz + Rsz + 1) / 2
shiftLeftCeil(s, node, i) ==
    shiftLeftBy(s, node, i,
                (Size(s.heap[s.heap[node].nodes[i]])
                   + Size(s.heap[s.heap[node].nodes[i + 1]]) + 2) \div 2
                  - Size(s.heap[s.heap[node].nodes[i]]))

shiftLeft(s, node, i) ==
    shiftLeftBy(s, node, i,
                (Size(s.heap[s.heap[node].nodes[i]])
                   + Size(s.heap[s.heap[node].nodes[i + 1]]) + 1) \div 2
                  - Size(s.heap[s.heap[node].nodes[i]]))

\* shiftRight that rounds the number of moved entries down
shiftRightFloor(s, node, i) ==
    LET lnode == s.heap[node].nodes[i + 1]
        rnode == s.heap[node].nodes[i + 2]
        n     == (Size(s.heap[lnode]) + Size(s.heap[rnode])) \div 2 - Size(s.heap[rnode])
        s1    == ShiftRight(s, lnode, rnode, n)
    IN  Ev([s1 EXCEPT !.heap[node].keys = SetAt(@, i, LastKey(s1.heap[lnode]))],
           IF s.heap[lnode].leaf THEN "shiftRightLeaf" ELSE "shiftRightInternal")

\* lnode.ShiftRight(rnode, n); node.keys[i] = lnode.LastKey()
shiftRightBy(s, node, i, n) ==
    LET lnode == s.heap[node].nodes[i + 1]
        rnode == s.heap[node].nodes[i + 2]
        s1    == ShiftRight(s, lnode, rnode, n)
    IN  shiftCall("shiftRight", s,
                  Ev([s1 EXCEPT !.heap[node].keys = SetAt(@, i, LastKey(s1.heap[lnode]))],
                     IF s.heap[lnode].leaf THEN "shiftRightLeaf" ELSE "shiftRightInternal"),
                  lnode, rnode)

\* shiftRight that moves one entry more
shiftRightOneMore(s, node, i) ==
    shiftRightBy(s, node, i,
                 (Size(s.heap[s.heap[node].nodes[i + 1]])
                    + Size(s.heap[s.heap[node].nodes[i + 2]]) + 1) \div 2
                   - Size(s.heap[s.heap[node].nodes[i + 2]]) + 1)

shiftRight(s, node, i) ==
    shiftRightBy(s, node, i,
                 (Size(s.heap[s.heap[node].nodes[i + 1]])
                    + Size(s.heap[s.heap[node].nodes[i + 2]]) + 1) \div 2
                   - Size(s.heap[s.heap[node].nodes[i + 2]]))

MapEnd(s) == [node |-> s.back, idx |-> s.heap[s.back].n]
MapBegin(s) == [node |-> s.front, idx |-> 0]

RECURSIVE removeLoop(_, _, _)
\* node = m.mergeNode(inode, i); continue
removeFrom(mg, key) == removeLoop(mg.s, mg.lnode, key)

\* removeLoop that leaves m.n as it was
removeLoopKeepsLen(s, node, key) ==
    IF s.heap[node].leaf
    THEN LET tnode == s.heap[node]
             i     == search(Keys(tnode), key).i
         IN  IF i = tnode.n \/ compare(key, tnode.keys[i + 1]) # 0
             THEN [s |-> s, it |-> MapEnd(s), old |-> 0, ok |-> FALSE]
             ELSE LET s1 == leafRemoveAt(s, node, i)
                  IN  [s   |-> s1,
                       it  |-> IF s1.heap[node].n = i /\ s1.heap[node].next # Nil
                               THEN [node |-> s1.heap[node].next, idx |-> 0]
                               ELSE [node |-> node, idx |-> i],
                       old |-> tnode.values[i + 1],
                       ok  |-> TRUE]
    ELSE LET inode == s.heap[node]
             i     == search(KeysForFindAndRemove(inode), key).i
             desc  == inode.nodes[i + 1]
         IN  IF Size(s.heap[desc]) > minNodes
             THEN removeLoop(s, desc, key)
             ELSE IF i + 1 < inode.n /\ Size(s.heap[inode.nodes[i + 2]]) > minNodes
             THEN removeLoop(shiftLeft(s, node, i + 1), desc, key)
             ELSE IF i > 0 /\ Size(s.heap[inode.nodes[i]]) > minNodes
             THEN removeLoop(shiftRight(s, node, i - 1), desc, key)
             ELSE IF i + 1 < inode.n
             THEN removeFrom(mergeNode(s, node, i), key)
             ELSE removeFrom(mergeNode(s, node, i - 1), key)

\* the loop of remove comes round with node: its size, and whether it is
\* the root
removeEnter(s, node) ==
    Tr(s, "enter", [size |-> Size(s.heap[node]), isroot |-> s.root = node,
                    leaf |-> s.heap[node].leaf])

\* remove is about to merge around the child at i of node: the sizes of
\* that child and of its siblings on either side (-1 where there is none)
removeMerges(s, node, i) ==
    Tr(s, "merges",
       [desc  |-> Size(s.heap[s.heap[node].nodes[i + 1]]),
        left  |-> IF i > 0 THEN Size(s.heap[s.heap[node].nodes[i]]) ELSE -1,
        right |-> IF i + 1 < s.heap[node].n THEN Size(s.heap[s.heap[node].nodes[i + 2]])
                  ELSE -1])

\* tnode.RemoveAt(i) is called by remove: the size of tnode
removeAtCall(s, node) ==
    Tr(s, "RemoveAt", [size |-> Size(s.heap[node]), isroot |-> s.root = node])

\* removeNode that enters a child of exactly minNodes entries as it is
removeNodeEntersMin(s, node, key) ==
    IF s.heap[node].leaf
    THEN LET tnode == s.heap[node]
             i     == search(Keys(tnode), key).i
         IN  IF i = tnode.n \/ compare(key, tnode.keys[i + 1]) # 0
             THEN [s |-> s, it |-> MapEnd(s), old |-> 0, ok |-> FALSE]
             ELSE LET s1 == [leafRemoveAt(removeAtCall(s, node), node, i) EXCEPT !.n = @ - 1]
                  IN  [s   |-> s1,
                       it  |-> IF s1.heap[node].n = i /\ s1.heap[node].next # Nil
                               THEN [node |-> s1.heap[node].next, idx |-> 0]
                               ELSE [node |-> node, idx |-> i],
                       old |-> tnode.values[i + 1],
                       ok  |-> TRUE]
    ELSE LET inode == s.heap[node]
             i     == search(KeysForFindAndRemove(inode), key).i
             desc  == inode.nodes[i + 1]
         IN  IF Size(s.heap[desc]) >= minNodes
             THEN removeLoop(s, desc, key)
             ELSE IF i + 1 < inode.n /\ Size(s.heap[inode.nodes[i + 2]]) > minNodes
             THEN removeLoop(shiftLeft(s, node, i + 1), desc, key)
             ELSE IF i > 0 /\ Size(s.heap[inode.nodes[i]]) > minNodes
             THEN removeLoop(shiftRight(s, node, i - 1), desc, key)
             ELSE IF i + 1 < inode.n
             THEN removeFrom(mergeNode(removeMerges(s, node, i), node, i), key)
             ELSE removeFrom(mergeNode(removeMerges(s, node, i), node, i - 1), key)

\* one round of the loop of remove
removeNode(s, node, key) ==
    IF s.heap[node].leaf
    THEN LET tnode == s.heap[node]
             i     == search(Keys(tnode), key).i
         IN  IF i = tnode.n \/ compare(key, tnode.keys[i + 1]) # 0
             THEN [s |-> s, it |-> MapEnd(s), old |-> 0, ok |-> FALSE]
             ELSE LET s1 == [leafRemoveAt(removeAtCall(s, node), node, i) EXCEPT !.n = @ - 1]
                  IN  [s   |-> s1,
                       it  |-> IF s1.heap[node].n = i /\ s1.heap[node].next # Nil
                               THEN [node |-> s1.heap[node].next, idx |-> 0]
                               ELSE [node |-> node, idx |-> i],
                       old |-> tnode.values[i + 1],
                       ok  |-> TRUE]
    ELSE LET inode == s.heap[node]
             i     == search(KeysForFindAndRemove(inode), key).i
             desc  == inode.nodes[i + 1]
         IN  IF Size(s.heap[desc]) > minNodes
             THEN removeLoop(s, desc, key)
             ELSE IF i + 1 < inode.n /\ Size(s.heap[inode.nodes[i + 2]]) > minNodes
             THEN removeLoop(shiftLeft(s, node, i + 1), desc, key)
             ELSE IF i > 0 /\ Size(s.heap[inode.nodes[i]]) > minNodes
             THEN removeLoop(shiftRight(s, node, i - 1), desc, key)
             ELSE IF i + 1 < inode.n
             THEN removeFrom(mergeNode(removeMerges(s, node, i), node, i), key)
             ELSE removeFrom(mergeNode(removeMerges(s, node, i), node, i - 1), key)

\* the routing step of remove at node: the size of the node, the number of
\* keys searched, the index found and whether a child is there
removeRoute(s, node, key) ==
    IF s.heap[node].leaf THEN s
    ELSE Tr(s, "route",
            [n |-> s.heap[node].n,
             searched |-> Len(KeysForFindAndRemove(s.heap[node])),
             i |-> search(KeysForFindAndRemove(s.heap[node]), key).i,
             child |-> s.heap[node].nodes[
                          search(KeysForFindAndRemove(s.heap[node]), key).i + 1] # Nil,
             above |-> key > LastKey(s.heap[node])])

removeLoop(s, node, key) ==
    removeNode(removeRoute(removeEnter(s, node), node, key), node, key)

remove(s, key) ==
    LET rt == s.heap[s.root]
    IN  IF ~rt.leaf /\ rt.n = 2
           /\ Size(s.heap[rt.nodes[1]]) = minNodes
           /\ Size(s.heap[rt.nodes[2]]) = minNodes
        THEN removeFrom(mergeNode(removeMerges(s, s.root, 0), s.root, 0), key)
        ELSE removeLoop(s, s.root, key)

Remove(s, key) == remove(s, key)

\* ---------------------------------------------------------------- Iterator
ItKey(s, it) == s.heap[it.node].keys[it.idx + 1]
ItValue(s, it) == s.heap[it.node].values[it.idx + 1]
ItBegin(s, it) == it.idx = 0 /\ s.heap[it.node].prev = Nil
ItEnd(s, it) == s.heap[it.node].n = it.idx /\ s.heap[it.node].next = Nil

\* Next that never moves to the next leaf
ItNextSameLeaf(s, it) == [node |-> it.node, idx |-> it.idx + 1]

ItNext(s, it) ==
    IF it.idx + 1 = s.heap[it.node].n /\ s.heap[it.node].next # Nil
    THEN [node |-> s.heap[it.node].next, idx |-> 0]
    ELSE [node |-> it.node, idx |-> it.idx + 1]

\* Prev that lands on the first entry of the previous leaf
ItPrevFirst(s, it) ==
    IF it.idx = 0
    THEN [node |-> s.heap[it.node].prev, idx |-> 0]
    ELSE [node |-> it.node, idx |-> it.idx - 1]

ItPrev(s, it) ==
    IF it.idx = 0
    THEN [node |-> s.heap[it.node].prev, idx |-> s.heap[s.heap[it.node].prev].n - 1]
    ELSE [node |-> it.node, idx |-> it.idx - 1]

\* SetValue that stores the value in the key array
SetValueInKeys(s, it, value) == [s EXCEPT !.heap[it.node].keys = SetAt(@, it.idx, value)]

SetValue(s, it, value) == [s EXCEPT !.heap[it.node].values = SetAt(@, it.idx, value)]

\* a RemoveIter by key that hands back End() whatever remove returned
ReturnedEnd(r) == [s |-> r.s, it |-> MapEnd(r.s)]

\* it, _, _ := m.remove(it.Key()); return it
Returned(r) == [s |-> r.s, it |-> r.it]

\* RemoveIter whose in-place removal stays in the leaf it emptied the end of
RemoveIterSameLeaf(s, it) ==
    IF ItEnd(s, it) THEN [s |-> s, it |-> it]
    ELSE LET tnode == s.heap[it.node]
         IN  IF it.node # s.root /\ tnode.n = minNodes
             THEN Returned(remove(Ev(s, "byKey"), ItKey(s, it)))
             ELSE LET s1 == [leafRemoveAt(s, it.node, it.idx) EXCEPT !.n = @ - 1]
                  IN  [s  |-> Ev(s1, "inPlace"),
                       it |-> [node |-> it.node, idx |-> it.idx]]

\* RemoveIter without the it.End() test
RemoveIterNoEndCheck(s, it) ==
    LET tnode == s.heap[it.node]
    IN  IF it.node # s.root /\ tnode.n = minNodes
        THEN Returned(remove(Ev(s, "byKey"), ItKey(s, it)))
        ELSE LET s1 == [leafRemoveAt(s, it.node, it.idx) EXCEPT !.n = @ - 1]
             IN  [s  |-> Ev(s1, "inPlace"),
                  it |-> IF s1.heap[it.node].n = it.idx /\ s1.heap[it.node].next # Nil
                         THEN [node |-> s1.heap[it.node].next, idx |-> 0]
                         ELSE [node |-> it.node, idx |-> it.idx]]

\* RemoveIter that removes in place from a leaf of minNodes entries
RemoveIterInPlaceAtMin(s, it) ==
    IF ItEnd(s, it) THEN [s |-> s, it |-> it]
    ELSE LET tnode == s.heap[it.node]
         IN  IF it.node # s.root /\ tnode.n < minNodes
             THEN Returned(remove(Ev(s, "byKey"), ItKey(s, it)))
             ELSE LET s1 == [leafRemoveAt(s, it.node, it.idx) EXCEPT !.n = @ - 1]
                  IN  [s  |-> Ev(s1, "inPlace"),
                       it |-> IF s1.heap[it.node].n = it.idx /\ s1.heap[it.node].next # Nil
                              THEN [node |-> s1.heap[it.node].next, idx |-> 0]
                              ELSE [node |-> it.node, idx |-> it.idx]]

RemoveIter(s, it) ==
    IF ItEnd(s, it) THEN [s |-> s, it |-> it]
    ELSE LET tnode == s.heap[it.node]
         IN  IF it.node # s.root /\ tnode.n = minNodes
             THEN Returned(remove(Ev(s, "byKey"), ItKey(s, it)))
             ELSE LET s1 == [leafRemoveAt(s, it.node, it.idx) EXCEPT !.n = @ - 1]
                  IN  [s  |-> Ev(s1, "inPlace"),
                       it |-> IF s1.heap[it.node].n = it.idx /\ s1.heap[it.node].next # Nil
                              THEN [node |-> s1.heap[it.node].next, idx |-> 0]
                              ELSE [node |-> it.node, idx |-> it.idx]]

\* Clear that leaves the element count as it was
ClearKeepsLen(s) ==
    IF s.n = 0 THEN s
    ELSE [s EXCEPT !.heap = Append(s.heap, newLeafNode),
                   !.root = Len(s.heap) + 1,
                   !.front = Len(s.heap) + 1,
                   !.back = Len(s.heap) + 1]

\* Clear that leaves back at the old last leaf
ClearKeepsBack(s) ==
    IF s.n = 0 THEN s
    ELSE [s EXCEPT !.heap = Append(s.heap, newLeafNode),
                   !.root = Len(s.heap) + 1,
                   !.front = Len(s.heap) + 1,
                   !.n = 0]

Clear(s) ==
    IF s.n = 0 THEN s
    ELSE [s EXCEPT !.heap = Append(s.heap, newLeafNode),
                   !.root = Len(s.heap) + 1,
                   !.front = Len(s.heap) + 1,
                   !.back = Len(s.heap) + 1,
                   !.n = 0]

\* ------------------------------------------------------- pointer identity
\* Go pointers are compared only for equality and unreachable nodes are
\* garbage: after an operation the nodes are renumbered in the order of a
\* walk from the root (then any other node still referenced), so that two
\* heaps that differ only in addresses are one state.
RECURSIVE Flatten(_)
Flatten(ss) == IF ss = << >> THEN << >> ELSE Head(ss) \o Flatten(Tail(ss))

RECURSIVE Walk(_, _)
Walk(h, x) ==
    IF h[x].leaf THEN << x >>
    ELSE << x >> \o Flatten([i \in 1..h[x].n |-> Walk(h, h[x].nodes[i])])

Range(f) == {f[i] : i \in DOMAIN f}

RECURSIVE Closure(_, _)
Closure(h, S) ==
    LET T == (S \cup UNION {{h[x].next, h[x].prev} \cup Range(h[x].nodes) : x \in S})
             \ {Nil}
    IN  IF T = S THEN S ELSE Closure(h, T)

RECURSIVE SortedSeq(_)
SortedSeq(S) ==
    IF S = {} THEN << >>
    ELSE LET x == CHOOSE y \in S : \A z \in S : y <= z
         IN  << x >> \o SortedSeq(S \ {x})

Canon(s, it) ==
    LET walk  == Walk(s.heap, s.root)
        all   == Closure(s.heap, (Range(walk) \cup {s.front, s.back, it.node}) \ {Nil})
        order == walk \o SortedSeq(all \ Range(walk))
        ren(x) == IF x = Nil THEN Nil ELSE CHOOSE i \in 1..Len(order) : order[i] = x
        node(nd) == [nd EXCEPT !.next = ren(nd.next),
                               !.prev = ren(nd.prev),
                               !.nodes = AsSeq([i \in 1..Len(nd.nodes) |-> ren(nd.nodes[i])],
                                              Len(nd.nodes))]
    IN  [s  |-> [s EXCEPT !.heap = AsSeq([i \in 1..Len(order) |-> node(s.heap[order[i]])],
                                      Len(order)),
                          !.root = ren(s.root),
                          !.front = ren(s.front),
                          !.back = ren(s.back)],
         it |-> [node |-> ren(it.node), idx |-> it.idx]]

\* ------------------------------------------------------------ observation
\* m.Begin().Seq(): the pairs met from Begin() by Next() until End().  The
\* walk stops after fuel steps, so that a broken leaf list still yields a
\* (wrong) finite sequence.
RECURSIVE SeqFrom(_, _, _)
SeqFrom(s, it, fuel) ==
    IF ItEnd(s, it) \/ fuel = 0 \/ it.node = Nil THEN << >>
    ELSE << << ItKey(s, it), ItValue(s, it) >> >> \o SeqFrom(s, ItNext(s, it), fuel - 1)

Fuel == 2 * (MaxKey + 2)

Pairs(s) == SeqFrom(s, MapBegin(s), Fuel)

\* the leaves met from front by next
RECURSIVE LeavesFrom(_, _, _)
LeavesFrom(s, x, fuel) ==
    IF x = Nil \/ fuel = 0 THEN << >> ELSE << x >> \o LeavesFrom(s, s.heap[x].next, fuel - 1)

Leaves(s) == LeavesFrom(s, s.front, Fuel)

\* the live iterators of s, and End()
LiveIts(s) ==
    {[node |-> x, idx |-> i] : x \in Range(Leaves(s)), i \in 0..(maxNodes - 1)}
      \cap {it \in [node : 1..Len(s.heap), idx : 0..(maxNodes - 1)] :
               it.idx < s.heap[it.node].n}

\* ------------------------------------------------------------ state machine
\* heap, root, front, back, n: the nodes and the fields of Map.
\* ref: the reference map, a function from the stored keys to their values.
\* last: the most recent call with its results, until the caller drops
\* them (Idle).
\* ops: the number of calls made that change the map.
\* hist: what the map held before the latest Insert of a new key, while no
\* other call than a Remove of that key has changed the map since.
VARIABLES heap, root, front, back, n, ref, last, ops, hist

vars == << heap, root, front, back, n, ref, last, ops, hist >>

M == [heap |-> heap, root |-> root, front |-> front, back |-> back, n |-> n,
      ev |-> {}, tr |-> {}, panic |-> FALSE]

NoIt == [node |-> Nil, idx |-> 0]

Idle == [op |-> "Idle", key |-> 0, value |-> 0, it |-> NoIt, rv |-> 0,
         ok |-> FALSE, ev |-> {}, tr |-> {}, panic |-> FALSE]

NoHist == [key |-> -1, pairs |-> << >>, n |-> 0, undone |-> FALSE]

\* New(): one empty leaf is root, front and back
Init ==
    /\ heap = << newLeafNode >>
    /\ root = 1
    /\ front = 1
    /\ back = 1
    /\ n = 0
    /\ ref = << >>
    /\ last = Idle
    /\ ops = 0
    /\ hist = NoHist

Install(c) ==
    /\ heap' = c.s.heap
    /\ root' = c.s.root
    /\ front' = c.s.front
    /\ back' = c.s.back
    /\ n' = c.s.n

RefPut(r, k, v) == [x \in DOMAIN r \cup {k} |-> IF x = k THEN v ELSE r[x]]
RefDel(r, k) == [x \in DOMAIN r \ {k} |-> r[x]]

\* for i := range N { m.Insert(Stride * i, Stride * i) }
RECURSIVE InsertRange(_, _, _)
InsertRange(s, i, N) ==
    IF i = N \/ s.panic THEN s
    ELSE InsertRange(Insert(s, Stride * i, Stride * i).s, i + 1, N)

CanCall == last.op = "Idle"
CanChange == last.op = "Idle" /\ ops < MaxOps

\* a call returned r (the state, the iterator, the value and the flag): the
\* map is as the call left it and the caller holds the results
Call(op, key, value, r) ==
    LET c == Canon(r.s, r.it)
    IN  /\ Install(c)
        /\ last' = [op |-> op, key |-> key, value |-> value, it |-> c.it,
                    rv |-> r.old, ok |-> r.ok, ev |-> r.s.ev, tr |-> r.s.tr,
                    panic |-> r.s.panic]

Results(s, it, old, ok) == [s |-> s, it |-> it, old |-> old, ok |-> ok]

RemoveIterResults(r, ok) == Results(r.s, r.it, 0, ok)

InsertRangeOp(N) ==
    /\ CanCall
    /\ ops = 0
    /\ Call("InsertRange", 0, 0, Results(InsertRange(M, 0, N), NoIt, 0, FALSE))
    /\ ref' = [k \in BulkKeys(N) |-> k]
    /\ ops' = 1
    /\ hist' = NoHist

InsertOp(k, v) ==
    /\ CanChange
    /\ Call("Insert", k, v, Insert(M, k, v))
    /\ ref' = RefPut(ref, k, v)
    /\ ops' = ops + 1
    /\ hist' = IF k \in DOMAIN ref THEN NoHist
                ELSE [key |-> k, pairs |-> Pairs(M), n |-> n, undone |-> FALSE]

RemoveOp(k) ==
    /\ CanChange
    /\ Call("Remove", k, 0, [Remove(M, k) EXCEPT !.it = NoIt])
    /\ ref' = RefDel(ref, k)
    /\ ops' = ops + 1
    /\ hist' = IF hist.key = k /\ ~hist.undone THEN [hist EXCEPT !.undone = TRUE]
                ELSE NoHist

RemoveIterOp(it) ==
    /\ CanChange
    /\ Call("RemoveIter", IF ItEnd(M, it) THEN 0 ELSE ItKey(M, it), 0,
            RemoveIterResults(RemoveIter(M, it), ~ItEnd(M, it)))
    /\ ref' = IF ItEnd(M, it) THEN ref ELSE RefDel(ref, ItKey(M, it))
    /\ ops' = ops + 1
    /\ hist' = NoHist

ClearOp ==
    /\ CanChange
    /\ Call("Clear", 0, 0, Results(Clear(M), NoIt, 0, n # 0))
    /\ ref' = << >>
    /\ ops' = ops + 1
    /\ hist' = NoHist

\* it.SetValue(v) with a live iterator; the caller keeps it
SetValueOp(it, v) ==
    /\ CanChange
    /\ Call("SetValue", ItKey(M, it), v, Results(SetValue(M, it, v), it, ItValue(M, it), TRUE))
    /\ ref' = RefPut(ref, ItKey(M, it), v)
    /\ ops' = ops + 1
    /\ hist' = NoHist

FindOp(k) ==
    /\ CanCall
    /\ LET r == Find(M, k)
       IN  last' = [Idle EXCEPT !.op = "Find", !.key = k, !.rv = r.value, !.ok = r.ok]
    /\ UNCHANGED << heap, root, front, back, n, ref, ops, hist >>

LowerBoundOp(k) ==
    /\ CanCall
    /\ last' = [Idle EXCEPT !.op = "LowerBound", !.key = k, !.it = LowerBound(M, k)]
    /\ UNCHANGED << heap, root, front, back, n, ref, ops, hist >>

\* the caller drops the results of the last call
Drop ==
    /\ last.op # "Idle"
    /\ ~last.panic
    /\ last' = Idle
    /\ UNCHANGED << heap, root, front, back, n, ref, ops, hist >>

\* the live iterators the caller holds: at a key of OpKeys
LiveOpIts(s) == {it \in LiveIts(s) : ItKey(s, it) \in OpKeys}

\* the iterators RemoveIter is called with: at a key of OpKeys, or End()
OpIts(s) == LiveOpIts(s) \cup {MapEnd(s)}

Next ==
    \/ \E N \in 1..BulkLen : InsertRangeOp(N)
    \/ \E k \in OpKeys : \E v \in ValuesOf(k) : InsertOp(k, v)
    \/ \E k \in OpKeys : RemoveOp(k)
    \/ \E it \in OpIts(M) : RemoveIterOp(it)
    \/ ClearOp
    \/ \E it \in LiveOpIts(M) : \E v \in ValuesOf(ItKey(M, it)) : SetValueOp(it, v)
    \/ \E k \in OpKeys : FindOp(k)
    \/ \E k \in OpKeys : LowerBoundOp(k)
    \/ Drop

Spec == Init /\ [][Next]_vars

\* ------------------------------------------------- the two key searches
\* The searches are applied to the key slice of a leaf root that holds any
\* set of at most maxNodes keys of SearchKeys, with any target of
\* SearchTargets; the caller holds the (index, found) pair in last.
SearchMaxKey == 8
SearchKeys == 1..SearchMaxKey
SearchTargets == 0..(SearchMaxKey + 1)

RECURSIVE InsertAll(_, _)
InsertAll(s, ks) ==
    IF ks = << >> THEN s ELSE InsertAll(Insert(s, Head(ks), Head(ks)).s, Tail(ks))

NewMap == [heap |-> << newLeafNode >>, root |-> 1, front |-> 1, back |-> 1, n |-> 0,
           ev |-> {}, tr |-> {}, panic |-> FALSE]

SearchInit ==
    \E K \in SUBSET SearchKeys :
       /\ Cardinality(K) <= maxNodes
       /\ heap = InsertAll(NewMap, SortedSeq(K)).heap
       /\ root = 1
       /\ front = 1
       /\ back = 1
       /\ n = Cardinality(K)
       /\ ref = [k \in K |-> k]
       /\ last = Idle
       /\ ops = 0
       /\ hist = NoHist

Searched(op, target, r) ==
    /\ CanCall
    /\ last' = [Idle EXCEPT !.op = op, !.key = target,
                            !.it = [node |-> root, idx |-> r.i], !.ok = r.ok]
    /\ UNCHANGED << heap, root, front, back, n, ref, ops, hist >>

LinearSearchOp(target) ==
    Searched("linearSearchOrdered", target, search(Keys(heap[root]), target))

BinarySearchOp(target) ==
    Searched("BinarySearchFunc", target, searchAny(Keys(heap[root]), target))

SearchNext ==
    \/ \E target \in SearchTargets : LinearSearchOp(target)
    \/ \E target \in SearchTargets : BinarySearchOp(target)
    \/ Drop

SearchSpec == SearchInit /\ [][SearchNext]_vars

\* --------------------------------------------- Insert after two removals
\* A map built by InsertRange from which two keys were removed in turn, so
\* that routing keys above the greatest key of a child occur at more than one
\* level; then one Insert of any key up to MaxKey.
RemovedTwo(N, k1, k2) ==
    Canon([Remove(Remove(InsertRange(NewMap, 0, N), k1).s, k2).s
             EXCEPT !.ev = {}, !.tr = {}], NoIt).s

RemovedInit ==
    \E N \in 1..BulkLen : \E k1 \in BulkKeys(N) : \E k2 \in BulkKeys(N) :
       \E r \in {RemovedTwo(N, k1, k2)} :
          /\ heap = r.heap
          /\ root = r.root
          /\ front = r.front
          /\ back = r.back
          /\ n = r.n
          /\ ref = [k \in BulkKeys(N) \ {k1, k2} |-> k]
          /\ last = Idle
          /\ ops = MaxOps - 1
          /\ hist = NoHist

RemovedNext ==
    \/ \E k \in 0..MaxKey : InsertOp(k, k)
    \/ Drop

RemovedSpec == RemovedInit /\ [][RemovedNext]_vars

\* ------------------------------------------------- what the claims speak of
KeySpace == 0..MaxKey

\* a live iterator: at an entry of a leaf of the leaf list
IsLive(s, it) ==
    /\ it.node \in Range(Leaves(s))
    /\ it.idx >= 0
    /\ it.idx < s.heap[it.node].n

\* the pairs without the pair of key k, and with the value of key k set
RECURSIVE Without(_, _)
Without(ps, k) ==
    IF ps = << >> THEN << >>
    ELSE IF Head(ps)[1] = k THEN Without(Tail(ps), k)
    ELSE << Head(ps) >> \o Without(Tail(ps), k)

WithValue(ps, k, v) ==
    AsSeq([i \in 1..Len(ps) |-> IF ps[i][1] = k THEN << k, v >> ELSE ps[i]], Len(ps))

\* the reference map as the sequence of its pairs in ascending key order
SortedPairs(r) ==
    LET ks == SortedSeq(DOMAIN r)
    IN  AsSeq([i \in 1..Len(ks) |-> << ks[i], r[ks[i]] >>], Len(ks))

\* the greatest key stored under node x
RECURSIVE MaxUnder(_, _)
MaxUnder(s, x) ==
    IF s.heap[x].leaf THEN LastKey(s.heap[x])
    ELSE MaxUnder(s, s.heap[x].nodes[s.heap[x].n])

RECURSIVE SumSizes(_, _)
SumSizes(s, xs) == IF xs = << >> THEN 0 ELSE s.heap[Head(xs)].n + SumSizes(s, Tail(xs))

Min(S) == CHOOSE x \in S : \A y \in S : x <= y

\* ------------------------------------------------------------------ claims
KeysOf(ps) == {ps[i][1] : i \in 1..Len(ps)}

\* C1: after any sequence of InsertRange, Insert, Remove, RemoveIter and
\* Clear calls on a new map, iteration from Begin() by Next() until End()
\* yields exactly the pairs of the reference map, each key once, in
\* strictly ascending key order.
C1_IterationIsReference ==
    LET ps == Pairs(M)
    IN  /\ ps = SortedPairs(ref)
        /\ \A i \in 1..(Len(ps) - 1) : ps[i][1] < ps[i + 1][1]

C1_Witness ==
    /\ last.op = "Remove"
    /\ last.ok
    /\ "mergeLeaf" \in last.ev
    /\ ~heap[root].leaf
    /\ \E k \in DOMAIN ref : ref[k] # k

\* C2: for every key k, Find(k) returns (v, true) exactly when k is stored
\* with value v, and (zero value, false) otherwise, also when an interior
\* node routes by a key greater than every key under the child.
C2_FindIsLookup ==
    LET ps == Range(Pairs(M))
        ks == {p[1] : p \in ps}
    IN  \A k \in KeySpace :
            LET r == Find(M, k)
            IN  IF k \in ks
                THEN r.ok /\ << k, r.value >> \in ps
                ELSE r = [value |-> 0, ok |-> FALSE]

C2_Witness ==
    /\ last.op = "Find"
    /\ ~last.ok
    /\ \E x \in 1..Len(heap) :
          /\ ~heap[x].leaf
          /\ \E i \in 1..(heap[x].n - 1) :
                heap[x].keys[i] = last.key /\ MaxUnder(M, heap[x].nodes[i]) < last.key

\* C3: Insert(k, v) returns (it, old, replaced): replaced is true iff k was
\* stored before the call, old is the value k had then (the zero value when
\* it was not stored), and it is a live iterator of the map after the call
\* with it.Key() = k and it.Value() = v.
C3_InsertResult ==
    [][last'.op = "Insert" =>
          LET ps == Range(Pairs(M))
              k  == last'.key
          IN  /\ last'.ok = (\E p \in ps : p[1] = k)
              /\ (last'.ok => << k, last'.rv >> \in ps)
              /\ (~last'.ok => last'.rv = 0)
              /\ IsLive(M', last'.it)
              /\ ItKey(M', last'.it) = k
              /\ ItValue(M', last'.it) = last'.value]_vars

C3_Witness ==
    /\ last.op = "Insert"
    /\ ~last.ok
    /\ {"spine", "splitLeaf", "splitRoot"} \subseteq last.ev
    /\ last.it.idx > 0

\* C4: Remove(k) of a stored key k returns (the value of k, true), makes
\* Len() one less and leaves every other pair as it was, whatever the
\* descent did (root collapse, shift left, shift right, merge).
C4_RemoveStored ==
    [][last'.op = "Remove" =>
          LET ps == Pairs(M)
              k  == last'.key
          IN  k \in KeysOf(ps) =>
                  /\ last'.ok
                  /\ << k, last'.rv >> \in Range(ps)
                  /\ n' = n - 1
                  /\ Pairs(M') = Without(ps, k)]_vars

C4_Witness ==
    /\ last.op = "Remove"
    /\ last.ok
    /\ "mergeInternal" \in last.ev
    /\ (last.ev \cap {"mergeLeaf", "shiftLeftLeaf", "shiftRightLeaf"}) # {}

\* C5: for every key k, LowerBound(k) is the iterator at the smallest
\* stored key >= k, or End() when every stored key is < k; when the result
\* is not Begin, the key at its Prev() is < k.
C5_LowerBound ==
    LET ks == KeysOf(Pairs(M))
        ls == Range(Leaves(M))
        live(it) == it.node \in ls /\ it.idx >= 0 /\ it.idx < heap[it.node].n
    IN  \A k \in KeySpace :
            LET it == LowerBound(M, k)
            IN  /\ IF \E x \in ks : x >= k
                   THEN /\ live(it)
                        /\ ItKey(M, it) >= k
                        /\ \A x \in ks : x < k \/ x >= ItKey(M, it)
                   ELSE ItEnd(M, it) /\ it = MapEnd(M)
                /\ (~ItBegin(M, it) =>
                       live(ItPrev(M, it)) /\ ItKey(M, ItPrev(M, it)) < k)

C5_Witness ==
    /\ last.op = "LowerBound"
    /\ last.it.idx = 0
    /\ IsLive(M, last.it)
    /\ heap[last.it.node].prev # Nil
    /\ LastKey(heap[heap[last.it.node].prev]) < last.key
    /\ \E x \in 1..Len(heap) :
          /\ ~heap[x].leaf
          /\ \E i \in 1..(heap[x].n - 1) :
                /\ heap[x].keys[i] >= last.key
                /\ MaxUnder(M, heap[x].nodes[i]) < last.key

\* C6: RemoveIter(it) with a live iterator removes exactly the pair at it
\* (Len() is one less, every other pair as it was) and returns the iterator
\* of the map after the call at the smallest stored key greater than the
\* removed key, or End() when the removed key was the greatest.
C6_RemoveIter ==
    [][(last'.op = "RemoveIter" /\ last'.ok) =>
          LET ps == Pairs(M)
              k  == last'.key
              gt == {x \in KeysOf(ps) : x > k}
          IN  /\ n' = n - 1
              /\ Pairs(M') = Without(ps, k)
              /\ IF gt # {}
                 THEN IsLive(M', last'.it) /\ ItKey(M', last'.it) = Min(gt)
                 ELSE ItEnd(M', last'.it)]_vars

C6_Witness ==
    /\ last.op = "RemoveIter"
    /\ last.ok
    /\ "byKey" \in last.ev
    /\ "mergeLeaf" \in last.ev
    /\ IsLive(M, last.it)
    /\ last.it.idx = 0
    /\ heap[last.it.node].prev # Nil
    /\ LastKey(heap[heap[last.it.node].prev]) < last.key

\* C7: Remove(k) of a key that is not stored returns (zero value, false)
\* and leaves Len() and the iterated pairs as they were, also when the
\* descent collapsed the root, shifted or merged.
C7_RemoveAbsent ==
    [][last'.op = "Remove" =>
          LET ps == Pairs(M)
          IN  last'.key \notin KeysOf(ps) =>
                  /\ ~last'.ok
                  /\ last'.rv = 0
                  /\ n' = n
                  /\ Pairs(M') = ps]_vars

C7_Witness ==
    /\ last.op = "Remove"
    /\ ~last.ok
    /\ "collapse" \in last.ev
    /\ (last.ev \cap {"mergeLeaf", "shiftLeftLeaf", "shiftRightLeaf"}) # {}
    /\ n > 0

\* C8: Insert(k, v) of a stored key k leaves Len(), the stored keys and the
\* value of every other key as they were and sets the value of k to v,
\* also when the descent split full nodes (the root included).
C8_InsertReplaces ==
    [][last'.op = "Insert" =>
          LET ps == Pairs(M)
          IN  last'.key \in KeysOf(ps) =>
                  /\ n' = n
                  /\ Pairs(M') = WithValue(ps, last'.key, last'.value)]_vars

C8_Witness ==
    /\ last.op = "Insert"
    /\ last.ok
    /\ last.rv # last.value
    /\ "splitRoot" \in last.ev
    /\ n > maxNodes

\* C9: after every call Len() is the sum of the sizes of the leaves met
\* from front by next, which is the number of distinct keys stored; Insert
\* adds one exactly when the key was not stored, Remove and RemoveIter take
\* one exactly when a pair was removed.
C9_Len ==
    /\ [](n = SumSizes(M, Leaves(M)) /\ n = Cardinality(KeysOf(Pairs(M))))
    /\ [][LET stored == last'.key \in KeysOf(Pairs(M))
          IN  /\ (last'.op = "Insert" => n' = n + (IF stored THEN 0 ELSE 1))
              /\ (last'.op = "Remove" =>
                     /\ last'.ok = stored
                     /\ n' = n - (IF last'.ok THEN 1 ELSE 0))
              /\ (last'.op = "RemoveIter" =>
                     n' = n - (IF last'.ok THEN 1 ELSE 0))]_vars

C9_Witness ==
    /\ last.op = "RemoveIter"
    /\ last.ok
    /\ "inPlace" \in last.ev
    /\ Len(Leaves(M)) > 2
    /\ n = SumSizes(M, Leaves(M))

\* C10: Insert(k, v) of a key that is not stored followed by Remove(k)
\* yields the Len() and the iterated pairs the map had before the Insert.
C10_InsertRemove ==
    hist.undone => (n = hist.n /\ Pairs(M) = hist.pairs)

C10_Witness ==
    /\ hist.undone
    /\ last.op = "Remove"
    /\ last.ok
    /\ hist.n > maxNodes
    /\ (last.ev \cap {"mergeLeaf", "shiftLeftLeaf", "shiftRightLeaf", "collapse"}) # {}

\* the pairs of ps whose key is greater than k, in order
RECURSIVE After(_, _)
After(ps, k) ==
    IF ps = << >> THEN << >>
    ELSE IF ps[1][1] > k THEN ps ELSE After(Tail(ps), k)

\* C11: for a live iterator it at key k, the iterator RemoveIter(it) returns
\* is the very position (same leaf, same index) a LowerBound(k) on the map
\* after the call yields, and iterating on from it yields the pairs the map
\* held after k.
C11_RemoveIterIsLowerBound ==
    [][(last'.op = "RemoveIter" /\ last'.ok) =>
          /\ last'.it = LowerBound(M', last'.key)
          /\ SeqFrom(M', last'.it, Fuel) = After(Pairs(M), last'.key)]_vars

C11_Witness ==
    /\ last.op = "RemoveIter"
    /\ last.ok
    /\ "inPlace" \in last.ev
    /\ last.it.idx = 0
    /\ heap[last.it.node].prev # Nil
    /\ LastKey(heap[heap[last.it.node].prev]) < last.key
    /\ ~ItEnd(M, last.it)
    /\ last.it = LowerBound(M, last.key)

\* C12: RemoveIter(it) with an iterator for which End() is true returns that
\* same iterator and changes nothing: the nodes, root, front, back and Len()
\* are as before, on an empty map as well.
C12_RemoveIterAtEnd ==
    [][(last'.op = "RemoveIter" /\ ~last'.ok) =>
          /\ last'.it = MapEnd(M)
          /\ heap' = heap
          /\ root' = root
          /\ front' = front
          /\ back' = back
          /\ n' = n]_vars

C12_Witness ==
    /\ last.op = "RemoveIter"
    /\ ~last.ok
    /\ last.it = MapEnd(M)
    /\ ItEnd(M, last.it)
    /\ ~heap[root].leaf
    /\ ops = MaxOps

\* the pairs met from it by Prev() until Begin(), at most fuel of them
RECURSIVE RevFrom(_, _, _)
RevFrom(s, it, fuel) ==
    IF ItBegin(s, it) \/ fuel = 0 \/ it.node = Nil THEN << >>
    ELSE << << ItKey(s, ItPrev(s, it)), ItValue(s, ItPrev(s, it)) >> >>
            \o RevFrom(s, ItPrev(s, it), fuel - 1)

Reverse(q) == AsSeq([i \in 1..Len(q) |-> q[Len(q) + 1 - i]], Len(q))

\* C13: from End(), Prev() applied until Begin() visits the pairs of the
\* forward iteration in reverse order, in Len() steps; on a non-empty map
\* End().Prev() is at the greatest key; and for every live iterator it,
\* it.Next().Prev() is it.
C13_ReverseIteration ==
    /\ Len(RevFrom(M, MapEnd(M), Fuel)) = n
    /\ RevFrom(M, MapEnd(M), Fuel) = Reverse(Pairs(M))
    /\ n > 0 => /\ IsLive(M, ItPrev(M, MapEnd(M)))
                /\ \A k \in DOMAIN ref : k <= ItKey(M, ItPrev(M, MapEnd(M)))
                /\ ItKey(M, ItPrev(M, MapEnd(M))) \in DOMAIN ref
    /\ \A it \in LiveIts(M) :
          /\ ItPrev(M, ItNext(M, it)) = it
          /\ ItKey(M, ItPrev(M, ItNext(M, it))) = ItKey(M, it)
          /\ ItValue(M, ItPrev(M, ItNext(M, it))) = ItValue(M, it)

C13_Witness ==
    /\ ops = MaxOps
    /\ last.op = "Remove"
    /\ last.ok
    /\ Len(Leaves(M)) > 2
    /\ Len(RevFrom(M, MapEnd(M), Fuel)) = n
    /\ heap[back].n < heap[heap[back].prev].n
    /\ ItPrev(M, MapEnd(M)) = [node |-> back, idx |-> heap[back].n - 1]

\* C14: whenever Len() is 0 (a new map, after Clear, after the removal of
\* every key), root, front and back are one and the same empty leaf without
\* next or prev, Begin() equals End() and Begin().End() is true; whenever
\* Len() is positive, Begin() is live at the smallest stored key and
\* Begin().End() is false.
C14_EmptyAndBegin ==
    /\ n = 0 => /\ root = front
                /\ root = back
                /\ heap[root].leaf
                /\ heap[root].n = 0
                /\ heap[root].next = Nil
                /\ heap[root].prev = Nil
                /\ MapBegin(M) = MapEnd(M)
                /\ ItEnd(M, MapBegin(M))
                /\ Pairs(M) = << >>
    /\ n > 0 => /\ IsLive(M, MapBegin(M))
                /\ ItKey(M, MapBegin(M)) \in DOMAIN ref
                /\ \A k \in DOMAIN ref : ItKey(M, MapBegin(M)) <= k
                /\ ~ItEnd(M, MapBegin(M))

C14_Witness ==
    /\ n = 0
    /\ last.op \in {"Remove", "RemoveIter"}
    /\ last.ok
    /\ ops = MaxOps
    /\ root = front
    /\ root = back
    /\ MapBegin(M) = MapEnd(M)

\* C15: Clear() on a non-empty map installs a fresh empty leaf as root,
\* front and back and sets Len() to 0, after which iteration ends at once
\* and every Find is absent: the map is the map New returns.  Clear() on an
\* empty map changes nothing.
C15_Clear ==
    [][last'.op = "Clear" =>
          IF n = 0
          THEN /\ ~last'.ok
               /\ heap' = heap
               /\ root' = root
               /\ front' = front
               /\ back' = back
               /\ n' = n
          ELSE /\ last'.ok
               /\ heap' = << newLeafNode >>
               /\ root' = 1
               /\ front' = 1
               /\ back' = 1
               /\ n' = 0
               /\ Pairs(M') = << >>
               /\ ItEnd(M', MapBegin(M'))
               /\ \A k \in KeySpace : ~Find(M', k).ok]_vars

C15_Witness ==
    /\ last.op = "Clear"
    /\ last.ok
    /\ ops = MaxOps
    /\ n = 0
    /\ heap = << newLeafNode >>
    /\ \A k \in KeySpace : ~Find(M, k).ok

\* C16: SetValue(v) on a live iterator changes only the value stored with
\* that iterator's key: the iterated key sequence, Len(), the values of the
\* other keys, the sizes of the nodes, the routing keys and the leaf links
\* are as before, and a following Find of the key returns v.
C16_SetValue ==
    [][last'.op = "SetValue" =>
          /\ root' = root
          /\ front' = front
          /\ back' = back
          /\ n' = n
          /\ Len(heap') = Len(heap)
          /\ \A x \in 1..Len(heap) :
                /\ heap'[x].leaf = heap[x].leaf
                /\ heap'[x].n = heap[x].n
                /\ heap'[x].keys = heap[x].keys
                /\ heap'[x].nodes = heap[x].nodes
                /\ heap'[x].next = heap[x].next
                /\ heap'[x].prev = heap[x].prev
                /\ \A i \in 1..maxNodes :
                      (x # last'.it.node \/ i # last'.it.idx + 1)
                         => heap'[x].values[i] = heap[x].values[i]
          /\ Pairs(M') = WithValue(Pairs(M), last'.key, last'.value)
          /\ Find(M', last'.key) = [value |-> last'.value, ok |-> TRUE]
          /\ ItKey(M', last'.it) = last'.key
          /\ ItValue(M', last'.it) = last'.value]_vars

C16_Witness ==
    /\ last.op = "SetValue"
    /\ last.rv # last.value
    /\ ~heap[root].leaf
    /\ n > maxNodes
    /\ Find(M, last.key) = [value |-> last.value, ok |-> TRUE]
    /\ \E k \in DOMAIN ref : k # last.key /\ ref[k] # k

\* C17: for every strictly ascending key sequence and every target, the
\* linear scan of New and the binary search of NewAny return the same
\* (index, found): the index is the smallest i with keys[i] >= target, or
\* the length when there is none, and found holds iff keys[i] = target.
C17_SearchesAgree ==
    LET keys == Keys(heap[root])
        r    == [i |-> last.it.idx, ok |-> last.ok]
    IN  last.op \in {"linearSearchOrdered", "BinarySearchFunc"} =>
          /\ \A j \in 1..(Len(keys) - 1) : keys[j] < keys[j + 1]
          /\ r = linearSearchOrdered(keys, last.key)
          /\ r = BinarySearchFunc(keys, last.key)
          /\ r.i \in 0..Len(keys)
          /\ \A j \in 1..r.i : keys[j] < last.key
          /\ r.i < Len(keys) => keys[r.i + 1] >= last.key
          /\ r.ok <=> (r.i < Len(keys) /\ keys[r.i + 1] = last.key)

C17_Witness ==
    /\ last.op = "BinarySearchFunc"
    /\ heap[root].n = maxNodes
    /\ ~last.ok
    /\ last.it.idx > 1
    /\ last.it.idx < maxNodes
    /\ last.it.idx = linearSearchOrdered(Keys(heap[root]), last.key).i

\* C18: after every public operation every node other than the root holds
\* between keyDegr and 2 * keyDegr entries, a root that is a leaf between 0
\* and 2 * keyDegr, and a root that is an interior node between 2 and
\* 2 * keyDegr; in particular neither the in-place path of RemoveIter nor
\* Remove leaves a leaf other than the root with fewer than keyDegr entries.
C18_NodeSizes ==
    /\ \A x \in Range(Walk(heap, root)) \cup Range(Leaves(M)) :
          /\ x # root => (heap[x].n >= minNodes /\ heap[x].n <= maxNodes)
          /\ (x = root /\ heap[x].leaf) => (heap[x].n >= 0 /\ heap[x].n <= maxNodes)
          /\ (x = root /\ ~heap[x].leaf) => (heap[x].n >= 2 /\ heap[x].n <= maxNodes)
    /\ (last.op \in {"Remove", "RemoveIter"} /\ last.ok) =>
          \A x \in Range(Leaves(M)) : x # root => heap[x].n >= minNodes

C18_Witness ==
    /\ last.op = "RemoveIter"
    /\ last.ok
    /\ "inPlace" \in last.ev
    /\ last.it.node # root
    /\ last.it.idx > 0
    /\ heap[last.it.node].n = minNodes
    /\ heap[root].n = 2
    /\ \E x \in Range(Leaves(M)) : heap[x].n = maxNodes

Max(S) == CHOOSE x \in S : \A y \in S : y <= x

\* the interior nodes reachable from the root
Interior(s) == {x \in Range(Walk(s.heap, s.root)) : ~s.heap[x].leaf}

\* every routing key is the greatest key reachable through its child
RoutingExact(s) ==
    \A x \in Interior(s) : \A i \in 1..s.heap[x].n :
       s.heap[x].keys[i] = Max(KeysUnder(s, s.heap[x].nodes[i]))

\* verifyMapNode's bound on node x and below: the last key of x, which for an
\* interior node is its last routing key, is at most maxKey, and the same
\* holds below every slot of an interior x that is not nil (the slots at or
\* beyond n included), with the key x holds at that slot as maxKey
RECURSIVE RoutingBoundsUnder(_, _, _)
RoutingBoundsUnder(s, x, maxKey) ==
    /\ LastKey(s.heap[x]) <= maxKey
    /\ ~s.heap[x].leaf =>
          \A i \in 1..maxNodes :
             s.heap[x].nodes[i] # Nil =>
                RoutingBoundsUnder(s, s.heap[x].nodes[i], s.heap[x].keys[i])

\* verifyMapNode's bound below the root: every slot of an interior root that
\* is not nil satisfies the bound with the root's key at that slot
RoutingBounds(s) ==
    ~s.heap[s.root].leaf =>
       \A i \in 1..maxNodes :
          s.heap[s.root].nodes[i] # Nil =>
             RoutingBoundsUnder(s, s.heap[s.root].nodes[i],
                                s.heap[s.root].keys[i])

\* C19 as stated: after every public operation, for every interior node and
\* every i < n, routing[i] equals the greatest key reachable through
\* child[i].
C19_RoutingIsMax ==
    RoutingExact(M)

\* C19: after every public operation, for every interior node and every
\* i < n, routing[i] is greater than or equal to the greatest key reachable
\* through child[i] and to the last key of child[i] itself (its last
\* routing key when it is an interior node); InsertRange and Insert keep
\* routing keys that are equal to those greatest keys equal to them.
C19_RoutingIsUpperBound ==
    /\ [](/\ RoutingBounds(M)
          /\ \A x \in Interior(M) : \A i \in 1..heap[x].n :
                heap[x].keys[i] >= Max(KeysUnder(M, heap[x].nodes[i])))
    /\ [][(last'.op \in {"InsertRange", "Insert"} /\ RoutingExact(M))
             => RoutingExact(M')]_vars

C19_Witness ==
    /\ last.op \in {"Remove", "RemoveIter"}
    /\ last.ok
    /\ RoutingBounds(M)
    /\ \E x \in Interior(M) : \E i \in 1..heap[x].n :
          /\ heap[heap[x].nodes[i]].leaf
          /\ heap[x].keys[i] = last.key
          /\ heap[x].keys[i] > Max(KeysUnder(M, heap[x].nodes[i]))
          /\ last.key \notin DOMAIN ref

\* C20: after every public operation, for every interior node the routing
\* keys routing[0..n) are strictly ascending, every key reachable through
\* child[i] is at most routing[i] and, for i > 0, greater than
\* routing[i - 1], and the last routing key of a child that is an interior
\* node is at most the routing key of the parent for that child.
C20_RoutingOrder ==
    \A x \in Interior(M) :
       /\ \A i \in 1..(heap[x].n - 1) : heap[x].keys[i] < heap[x].keys[i + 1]
       /\ \A i \in 1..heap[x].n :
             /\ \A k \in KeysUnder(M, heap[x].nodes[i]) :
                   /\ k <= heap[x].keys[i]
                   /\ i > 1 => k > heap[x].keys[i - 1]
             /\ ~heap[heap[x].nodes[i]].leaf =>
                   LastKey(heap[heap[x].nodes[i]]) <= heap[x].keys[i]

C20_Witness ==
    /\ last.op = "Remove"
    /\ last.ok
    /\ "shiftLeftLeaf" \in last.ev
    /\ \E x \in Interior(M) : \E i \in 1..(heap[x].n - 1) :
          /\ ~heap[heap[x].nodes[i]].leaf
          /\ LastKey(heap[heap[x].nodes[i]]) <= heap[x].keys[i]
          /\ heap[x].keys[i] < heap[x].keys[i + 1]
          /\ \A k \in KeysUnder(M, heap[x].nodes[i + 1]) : k > heap[x].keys[i]

\* the depths, counted from x at depth d, of the leaves reachable through x
RECURSIVE LeafDepths(_, _, _)
LeafDepths(s, x, d) ==
    IF s.heap[x].leaf THEN {<< x, d >>}
    ELSE UNION {LeafDepths(s, s.heap[x].nodes[i], d + 1) : i \in 1..s.heap[x].n}

\* C21: after every public operation all leaves are at the same depth from
\* the root (the leaves of the leaf list being the leaves of the tree).
C21_LeavesSameDepth ==
    /\ \A a, b \in LeafDepths(M, root, 0) : a[2] = b[2]
    /\ {a[1] : a \in LeafDepths(M, root, 0)} = Range(Leaves(M))

C21_Witness ==
    /\ last.op = "Remove"
    /\ last.ok
    /\ "mergeInternal" \in last.ev
    /\ \A a \in LeafDepths(M, root, 0) : a[2] = 2
    /\ Cardinality(LeafDepths(M, root, 0)) > maxNodes

\* the leaves of the tree, left to right
TreeLeaves(s) == SelectSeq(Walk(s.heap, s.root), LAMBDA x : s.heap[x].leaf)

\* the leaves met from x by prev, at most fuel of them
RECURSIVE LeavesBack(_, _, _)
LeavesBack(s, x, fuel) ==
    IF x = Nil \/ fuel = 0 THEN << >> ELSE << x >> \o LeavesBack(s, s.heap[x].prev, fuel - 1)

\* C22: after every public operation the leaves form one doubly-linked list
\* in key order: following next from front visits every leaf of the tree
\* exactly once, left to right, and ends at back; following prev from back
\* is the exact reverse; front.prev and back.next are nil; and
\* x.next.prev = x for every leaf x with a successor.
C22_LeafList ==
    /\ Leaves(M) = TreeLeaves(M)
    /\ Cardinality(Range(Leaves(M))) = Len(Leaves(M))
    /\ Leaves(M)[1] = front
    /\ Leaves(M)[Len(Leaves(M))] = back
    /\ LeavesBack(M, back, Fuel) = Reverse(Leaves(M))
    /\ heap[front].prev = Nil
    /\ heap[back].next = Nil
    /\ \A x \in Range(TreeLeaves(M)) :
          /\ heap[x].next # Nil => heap[heap[x].next].prev = x
          /\ heap[x].prev # Nil => heap[heap[x].prev].next = x
    /\ \A i \in 1..(Len(Leaves(M)) - 1) :
          heap[Leaves(M)[i]].n > 0 /\ heap[Leaves(M)[i + 1]].n > 0 =>
             LastKey(heap[Leaves(M)[i]]) < heap[Leaves(M)[i + 1]].keys[1]

C22_Witness ==
    /\ last.op = "Insert"
    /\ ~last.ok
    /\ "splitLeaf" \in last.ev
    /\ last.it.node = back
    /\ Len(Leaves(M)) > 2
    /\ LeavesBack(M, back, Fuel) = Reverse(Leaves(M))
    /\ ops = MaxOps

\* C23: after every public operation, in every leaf the keys keys[0..n) are
\* strictly ascending under the comparator, and the last key of each leaf is
\* smaller than the first key of its successor leaf.
C23_LeafKeysAscending ==
    \A x \in Range(TreeLeaves(M)) \cup Range(Leaves(M)) :
       /\ \A i \in 1..(heap[x].n - 1) : compare(heap[x].keys[i], heap[x].keys[i + 1]) < 0
       /\ (heap[x].next # Nil) =>
             /\ heap[x].n > 0
             /\ heap[heap[x].next].n > 0
             /\ compare(LastKey(heap[x]), heap[heap[x].next].keys[1]) < 0

C23_Witness ==
    /\ last.op = "Insert"
    /\ ~last.ok
    /\ last.it.idx > 0
    /\ last.it.idx < heap[last.it.node].n - 1
    /\ heap[last.it.node].n = maxNodes
    /\ heap[last.it.node].next # Nil
    /\ heap[last.it.node].prev # Nil
    /\ ops = MaxOps

\* C24: after every public operation, in every node reachable from the root
\* the slots [n, 2 * keyDegr) of the key array, of the value array (leaves)
\* and of the child array (interior nodes) hold the zero value.
C24_SlotsCleared ==
    \A x \in Range(Walk(heap, root)) :
       /\ Len(heap[x].keys) = maxNodes
       /\ Len(heap[x].values) = maxNodes
       /\ Len(heap[x].nodes) = maxNodes
       /\ \A i \in (heap[x].n + 1)..maxNodes :
             /\ heap[x].keys[i] = 0
             /\ heap[x].leaf => heap[x].values[i] = 0
             /\ ~heap[x].leaf => heap[x].nodes[i] = Nil

C24_Witness ==
    /\ last.op = "Remove"
    /\ last.ok
    /\ "shiftRightInternal" \in last.ev
    /\ \E x \in Interior(M) : heap[x].n < maxNodes /\ heap[x].nodes[heap[x].n + 1] = Nil
    /\ \E x \in Range(TreeLeaves(M)) : heap[x].n < maxNodes /\ heap[x].keys[heap[x].n + 1] = 0

\* the records of the calls of one name in a trace
Calls(tr, call) == {c[2] : c \in {d \in tr : d[1] = call}}

\* C25: on every Insert descent no node on the path is full when it is
\* worked on: SplitAt is only called on an interior node of size less than
\* 2 * keyDegr (and for a full child), and the leaf finally reached has size
\* less than 2 * keyDegr when InsertAt is applied, in the interior case and
\* in the extend-right-spine case alike; no index goes out of range.
C25_InsertPathNotFull ==
    last.op \in {"Insert", "InsertRange"} =>
       /\ ~last.panic
       /\ \A c \in Calls(last.tr, "SplitAt") : c.size < maxNodes /\ c.child = maxNodes
       /\ \A c \in Calls(last.tr, "InsertAt") : c.size < maxNodes /\ c.idx <= c.size
       /\ (last.op = "Insert" /\ ~last.ok) => Calls(last.tr, "InsertAt") # {}

C25_Witness ==
    /\ last.op = "Insert"
    /\ ~last.ok
    /\ "spine" \in last.ev
    /\ \E c \in Calls(last.tr, "SplitAt") : c.size = maxNodes - 1
    /\ \E c \in Calls(last.tr, "InsertAt") : c.size = minNodes /\ c.idx = c.size

\* C26: on every Remove descent, every node other than the root that the
\* descent enters has at least keyDegr + 1 entries when it is entered;
\* hence a merge of two children of such a node never leaves it with fewer
\* than keyDegr children, and the removal of one entry from the leaf reached,
\* when it is not the root, leaves it with at least keyDegr entries.
C26_RemovePathAboveMin ==
    last.op \in {"Remove", "RemoveIter"} =>
       /\ \A c \in Calls(last.tr, "enter") : ~c.isroot => c.size >= minNodes + 1
       /\ \A c \in Calls(last.tr, "mergeNode") :
             (~c.isroot /\ ~c.collapsed) => (c.parent >= minNodes + 1 /\ c.after >= minNodes)
       /\ \A c \in Calls(last.tr, "RemoveAt") : ~c.isroot => c.size - 1 >= minNodes
       /\ (last.op = "Remove" /\ last.ok) => Calls(last.tr, "RemoveAt") # {}

C26_Witness ==
    /\ last.op = "Remove"
    /\ last.ok
    /\ \E c \in Calls(last.tr, "enter") : ~c.isroot /\ ~c.leaf /\ c.size = minNodes + 1
    /\ \E c \in Calls(last.tr, "mergeNode") : ~c.isroot /\ ~c.collapsed /\ c.after = minNodes
    /\ \E c \in Calls(last.tr, "RemoveAt") : ~c.isroot /\ c.size = maxNodes

\* C27: a merge is performed only when the child chosen by routing has
\* exactly keyDegr entries and no sibling next to it has more than keyDegr;
\* the two merged siblings therefore have exactly keyDegr entries each, the
\* merged node has exactly 2 * keyDegr entries, those of the left sibling
\* followed by those of the right (never more than the capacity), and the
\* right sibling is the one taken out of the parent.
C27_MergeOfTwoMin ==
    last.op \in {"Remove", "RemoveIter"} =>
       /\ \A c \in Calls(last.tr, "merges") :
             /\ c.desc = minNodes
             /\ c.left <= minNodes
             /\ c.right <= minNodes
             /\ c.left = minNodes \/ c.right = minNodes
       /\ \A c \in Calls(last.tr, "mergeNode") :
             /\ c.lsz = minNodes
             /\ c.rsz = minNodes
             /\ c.msz = 2 * keyDegr
             /\ c.msz <= maxNodes
             /\ c.inorder
             /\ c.spliced
             /\ ~c.collapsed => c.after = c.parent - 1
       /\ Calls(last.tr, "merges") = {} <=> Calls(last.tr, "mergeNode") = {}
       /\ ~last.panic

C27_Witness ==
    /\ last.op = "Remove"
    /\ last.ok
    /\ "mergeLeaf" \in last.ev
    /\ \E c \in Calls(last.tr, "merges") : c.right = -1 /\ c.left = minNodes
    /\ \E c \in Calls(last.tr, "mergeNode") : ~c.collapsed /\ c.msz = maxNodes /\ c.spliced

\* C28: a shift-left or shift-right performed on the Remove descent keeps
\* the entries of the two siblings, left then right, the same sequence and
\* so their total size, and leaves the two with sizes that differ by at most
\* 1, the destination (the child about to be entered: the left node of a
\* shift-left, the right node of a shift-right) being the one with the
\* extra entry; the destination ends with more than keyDegr entries and the
\* donor with at least keyDegr.
C28_ShiftBalances ==
    last.op \in {"Remove", "RemoveIter"} =>
       /\ \A c \in Calls(last.tr, "shiftLeft") :
             /\ c.inorder
             /\ c.lafter + c.rafter = c.lsz + c.rsz
             /\ c.lafter - c.rafter \in {0, 1}
             /\ c.lafter > c.lsz
             /\ c.lafter > minNodes
             /\ c.rafter >= minNodes
       /\ \A c \in Calls(last.tr, "shiftRight") :
             /\ c.inorder
             /\ c.lafter + c.rafter = c.lsz + c.rsz
             /\ c.rafter - c.lafter \in {0, 1}
             /\ c.rafter > c.rsz
             /\ c.rafter > minNodes
             /\ c.lafter >= minNodes

C28_Witness ==
    /\ last.op = "Remove"
    /\ last.ok
    /\ "shiftRightLeaf" \in last.ev
    /\ \E c \in Calls(last.tr, "shiftRight") :
          c.lsz = maxNodes /\ c.rsz = minNodes /\ c.lafter = c.rafter /\ c.inorder

\* C29: when Remove shifts left from child[i+1] (size Rsz > keyDegr) into
\* child[i] (size Lsz), child[i] ends with exactly (Lsz + Rsz + 1) / 2
\* entries in integer division, which is the sum halved and rounded up, for
\* every pair of sizes for which the shift is taken.
C29_ShiftLeftSize ==
    last.op \in {"Remove", "RemoveIter"} =>
       \A c \in Calls(last.tr, "shiftLeft") :
          /\ c.rsz > minNodes
          /\ c.lafter = (c.lsz + c.rsz + 1) \div 2
          /\ 2 * c.lafter \in {c.lsz + c.rsz, c.lsz + c.rsz + 1}

\* C29 as stated: child[i] ends with (Lsz + Rsz + 1) / 2 rounded up
C29_ShiftLeftCeiling ==
    last.op \in {"Remove", "RemoveIter"} =>
       \A c \in Calls(last.tr, "shiftLeft") :
          /\ c.rsz > minNodes
          /\ 2 * c.lafter \in {c.lsz + c.rsz + 1, c.lsz + c.rsz + 2}

C29_Witness ==
    /\ last.op = "Remove"
    /\ last.ok
    /\ \E c \in Calls(last.tr, "shiftLeft") :
          /\ c.lsz = minNodes
          /\ c.rsz = maxNodes
          /\ c.lafter = minNodes + 1
          /\ c.rafter = minNodes + 1
    /\ \E c \in Calls(last.tr, "shiftLeft") :
          c.lsz = minNodes /\ c.rsz = minNodes + 1 /\ c.lafter = minNodes + 1

\* C30: every split performed by Insert, of the root or through SplitAt,
\* takes a node of size 2 * keyDegr = maxNodes and produces two nodes of
\* size keyDegr = minNodes each, the left keeping the lower N - N / 2
\* entries and the new right sibling receiving the upper N / 2 entries in
\* order.
C30_SplitHalves ==
    last.op \in {"Insert", "InsertRange"} =>
       \A c \in Calls(last.tr, "Split") :
          /\ c.size = maxNodes
          /\ c.size = 2 * keyDegr
          /\ c.lsz = c.size - c.size \div 2
          /\ c.rsz = c.size \div 2
          /\ c.lsz = minNodes
          /\ c.rsz = minNodes
          /\ c.lower
          /\ c.upper

\* C30 as stated: the two nodes a split produces have sizes in
\* keyDegr + 1 .. 2 * keyDegr - 1
C30_SplitGivesNormal ==
    last.op \in {"Insert", "InsertRange"} =>
       \A c \in Calls(last.tr, "Split") :
          /\ c.size = maxNodes
          /\ c.lsz \in (keyDegr + 1)..(2 * keyDegr - 1)
          /\ c.rsz \in (keyDegr + 1)..(2 * keyDegr - 1)
          /\ c.lower
          /\ c.upper

C30_Witness ==
    /\ last.op = "Insert"
    /\ last.ok
    /\ "splitRoot" \in last.ev
    /\ \E c \in Calls(last.tr, "Split") :
          c.leaf /\ c.size = maxNodes /\ c.lsz = minNodes /\ c.rsz = minNodes
    /\ \E c \in Calls(last.tr, "Split") :
          ~c.leaf /\ c.size = maxNodes /\ c.lsz = minNodes /\ c.rsz = minNodes /\ c.upper

\* C31: the height of the tree grows only inside Insert, by exactly one, and
\* exactly when the root has 2 * keyDegr entries at the start of the Insert;
\* the new root is then an interior node of size 2 whose children are the
\* two halves of the old root and whose routing keys are their last keys.
\* No other operation increases the height, and each of the Inserts of a
\* bulk insertion that grows the tree found the root full.
C31_HeightGrows ==
    [][/\ last'.op = "Insert" =>
            /\ Height(M)' = Height(M) + (IF IsFull(heap[root]) THEN 1 ELSE 0)
            /\ Calls(last'.tr, "splitRoot") # {} <=> IsFull(heap[root])
            /\ IsFull(heap[root]) =>
                  /\ ~heap'[root'].leaf
                  /\ heap'[root'].n = 2
                  /\ \A i \in 1..2 :
                        heap'[root'].keys[i] = LastKey(heap'[heap'[root'].nodes[i]])
       /\ last'.op \in {"Insert", "InsertRange"} =>
            /\ \A c \in Calls(last'.tr, "splitRoot") :
                  /\ c.size = 2 * keyDegr
                  /\ c.after = c.before + 1
                  /\ c.interior
                  /\ c.n = 2
                  /\ c.left
                  /\ c.fresh
                  /\ c.halves
                  /\ c.keys
            /\ Height(M)' - Height(M) = Cardinality(Calls(last'.tr, "splitRoot"))
       /\ last'.op \notin {"Insert", "InsertRange"} => Height(M)' <= Height(M)
      ]_vars

C31_Witness ==
    /\ last.op = "Insert"
    /\ ~last.ok
    /\ Height(M) = 3
    /\ "spine" \notin last.ev
    /\ \E c \in Calls(last.tr, "splitRoot") :
          c.size = maxNodes /\ c.before = 2 /\ c.after = 3 /\ c.halves

\* the test remove makes before its loop: the root is an interior node of
\* exactly 2 children, both of minNodes entries
RootOfTwoMin(s) ==
    /\ ~s.heap[s.root].leaf
    /\ s.heap[s.root].n = 2
    /\ Size(s.heap[s.heap[s.root].nodes[1]]) = minNodes
    /\ Size(s.heap[s.heap[s.root].nodes[2]]) = minNodes

\* C32: apart from Clear, which leaves one empty leaf, the height of the
\* tree decreases only inside Remove and the fall-back of RemoveIter to it,
\* by exactly one per call, and exactly when at the start of the call the
\* root is an interior node of exactly 2 children, both of keyDegr
\* entries; the merged node of 2 * keyDegr entries becomes the new root.
\* An interior root never ends an operation with fewer than 2 children.
C32_HeightShrinks ==
    [][/\ last'.op = "Remove" =>
             Height(M)' = Height(M) - (IF RootOfTwoMin(M) THEN 1 ELSE 0)
       /\ last'.op = "RemoveIter" =>
             Height(M)' = Height(M)
                            - (IF "byKey" \in last'.ev /\ RootOfTwoMin(M) THEN 1 ELSE 0)
       /\ last'.op \in {"Remove", "RemoveIter"} =>
             /\ \A c \in Calls(last'.tr, "mergeNode") :
                   c.collapsed =>
                      /\ RootOfTwoMin(M)
                      /\ c.isroot
                      /\ c.parent = 2
                      /\ c.lsz = keyDegr
                      /\ c.rsz = keyDegr
                      /\ c.msz = 2 * keyDegr
                      /\ c.inorder
             /\ Height(M)' < Height(M) =>
                   \E c \in Calls(last'.tr, "mergeNode") : c.collapsed
       /\ ~heap'[root'].leaf => heap'[root'].n >= 2
       /\ last'.op = "Clear" => Height(M)' = 1
       /\ last'.op \notin {"Remove", "RemoveIter", "Clear"} => Height(M)' >= Height(M)
      ]_vars

\* C32 as stated: no operation but Remove and RemoveIter ends with a lower
\* tree
C32_HeightShrinksOnlyInRemove ==
    [][/\ last'.op = "Remove" =>
             Height(M)' = Height(M) - (IF RootOfTwoMin(M) THEN 1 ELSE 0)
       /\ last'.op = "RemoveIter" =>
             Height(M)' = Height(M)
                            - (IF "byKey" \in last'.ev /\ RootOfTwoMin(M) THEN 1 ELSE 0)
       /\ last'.op \in {"Remove", "RemoveIter"} =>
             /\ \A c \in Calls(last'.tr, "mergeNode") :
                   c.collapsed =>
                      /\ RootOfTwoMin(M)
                      /\ c.isroot
                      /\ c.parent = 2
                      /\ c.lsz = keyDegr
                      /\ c.rsz = keyDegr
                      /\ c.msz = 2 * keyDegr
                      /\ c.inorder
             /\ Height(M)' < Height(M) =>
                   \E c \in Calls(last'.tr, "mergeNode") : c.collapsed
       /\ ~heap'[root'].leaf => heap'[root'].n >= 2
       /\ last'.op \notin {"Remove", "RemoveIter"} => Height(M)' >= Height(M)
      ]_vars

C32_Witness ==
    /\ last.op = "Remove"
    /\ last.ok
    /\ Height(M) = 2
    /\ "collapse" \in last.ev
    /\ \E c \in Calls(last.tr, "mergeNode") :
          c.collapsed /\ c.isroot /\ c.msz = 2 * keyDegr

\* C33: whenever Insert is called with the root an interior node and a key
\* greater than the last routing key of the root, which is every key
\* greater than all stored keys as long as the routing keys are the greatest
\* keys of their children, the descent takes the extend-right-spine path at
\* every interior level: the inner loop is entered at the root, and at each
\* level from the root down the last routing key is overwritten with the
\* new key and the last child is followed.
C33_NewMaximumTakesSpine ==
    [][(/\ last'.op = "Insert"
        /\ ~heap[root].leaf
        /\ \/ last'.key > LastKey(heap[root])
           \/ RoutingExact(M) /\ \A k \in DOMAIN ref : k < last'.key)
         => /\ \A k \in DOMAIN ref : k < last'.key
            /\ \E c \in Calls(last'.tr, "spine") : c.isroot
            /\ \A c \in Calls(last'.tr, "spine") : c.isroot /\ c.routed /\ c.atend
            /\ \A i \in 1..Len(RightSpine(M, root)') :
                  LastKey(heap'[RightSpine(M, root)'[i]]) = last'.key
      ]_vars

\* C33 as stated: every Insert of a key greater than every stored key
\* into a map with an interior root enters the inner loop at the root
C33_GreaterThanStoredTakesSpine ==
    [][(/\ last'.op = "Insert"
        /\ ~heap[root].leaf
        /\ \A k \in DOMAIN ref : k < last'.key)
         => \E c \in Calls(last'.tr, "spine") : c.isroot /\ c.routed /\ c.atend
      ]_vars

C33_Witness ==
    /\ last.op = "Insert"
    /\ Height(M) = 3
    /\ {"spine", "splitLeaf"} \subseteq last.ev
    /\ "splitRoot" \notin last.ev
    /\ \E c \in Calls(last.tr, "spine") : c.isroot /\ c.routed /\ c.atend
    /\ LastKey(heap[root]) = last.key

\* C34: the extend-right-spine branch of Insert is entered at an interior
\* node only when the key is strictly greater than every key stored in that
\* node's subtree; it never replaces and always adds a new pair (Len() + 1,
\* replaced = false), appends it at index n of the rightmost leaf of that
\* subtree, and sets the last routing key of every interior node from that
\* node down to the new key.
C34_SpineInserts ==
    /\ last.op \in {"Insert", "InsertRange"} =>
          \A c \in Calls(last.tr, "spine") :
             /\ c.above
             /\ c.grown = 1
             /\ ~c.replaced
             /\ c.atend
             /\ c.routed
    /\ (last.op = "Insert" /\ "spine" \in last.ev) =>
          /\ ~last.ok
          /\ Calls(last.tr, "spine") # {}
          /\ IsLive(M, last.it)
          /\ ItKey(M, last.it) = last.key
          /\ last.it.idx = heap[last.it.node].n - 1
          /\ \A c \in Calls(last.tr, "InsertAt") : c.idx = c.size

C34_Witness ==
    /\ last.op = "Insert"
    /\ "spine" \in last.ev
    /\ \E c \in Calls(last.tr, "spine") : ~c.isroot /\ c.above /\ c.routed /\ c.atend
    /\ LastKey(heap[root]) > last.key
    /\ n = Cardinality(DOMAIN ref)

\* C35: in Find, LowerBound and Remove the routing step at an interior node
\* of size n searches only the first n - 1 routing keys and so always
\* selects a child index in 0..n-1 at which a child exists, for every key,
\* also for keys greater than every routing key; the descent always ends
\* at a leaf.
C35_RoutingSelectsChild ==
    /\ \A x \in Interior(M) :
          /\ Len(KeysForFindAndRemove(heap[x])) = heap[x].n - 1
          /\ search(KeysForFindAndRemove(heap[x]), MaxKey + 1).i = heap[x].n - 1
    /\ \A ls \in {Range(Leaves(M))} : \A key \in KeySpace \cup {MaxKey + 1} :
          \A d \in {Descent(M, root, key)} :
             /\ Len(d) = Height(M)
             /\ \A j \in 1..(Len(d) - 1) :
                   \E i \in 0..(heap[d[j]].n - 1) : heap[d[j]].nodes[i + 1] = d[j + 1]
             /\ heap[d[Len(d)]].leaf
             /\ d[Len(d)] \in ls
    /\ last.op = "Find" =>
          \A d \in {Descent(M, root, last.key)} :
             last.ok <=> last.key \in Range(Keys(heap[d[Len(d)]]))
    /\ last.op = "LowerBound" =>
          \A d \in {Descent(M, root, last.key)} :
             last.it.node \in {d[Len(d)], heap[d[Len(d)]].next}
    /\ last.op \in {"Remove", "RemoveIter"} =>
          /\ \A c \in Calls(last.tr, "route") :
                /\ c.searched = c.n - 1
                /\ c.i \in 0..(c.n - 1)
                /\ c.child
          /\ Calls(last.tr, "route") # {} =>
                \E c \in Calls(last.tr, "enter") : c.leaf

C35_Witness ==
    /\ last.op = "Remove"
    /\ ~last.ok
    /\ Height(M) = 3
    /\ last.key > LastKey(heap[root])
    /\ \E c \in Calls(last.tr, "route") : c.above /\ c.i = c.n - 1 /\ c.child
    /\ \E c \in Calls(last.tr, "enter") : c.leaf
    /\ ~Find(M, last.key).ok

\* C36: every iterator returned by Insert, LowerBound, RemoveIter, Begin and
\* End, and by Next applied to a live iterator, is in the post-state either
\* live (at an index below the n of a leaf of the list) or the End position
\* (its leaf is back and its index is back.n); none is at index n of a leaf
\* that has a successor, so End() is true of a returned iterator exactly
\* when it equals Map.End().
C36_ReturnedIterators ==
    \A it \in (IF last.op \in {"Insert", "LowerBound", "RemoveIter"} THEN {last.it} ELSE {})
                \cup {MapBegin(M), MapEnd(M)}
                \cup {ItNext(M, li) : li \in LiveIts(M)} :
       /\ it.node \in Range(Leaves(M))
       /\ \/ IsLive(M, it)
          \/ it.node = back /\ it.idx = heap[back].n
       /\ ~(it.idx = heap[it.node].n /\ heap[it.node].next # Nil)
       /\ ItEnd(M, it) <=> it = MapEnd(M)
       /\ IsLive(M, it) <=> ~ItEnd(M, it)

C36_Witness ==
    /\ last.op = "RemoveIter"
    /\ last.ok
    /\ "mergeLeaf" \in last.ev
    /\ IsLive(M, last.it)
    /\ last.it.idx = 0
    /\ heap[last.it.node].prev # Nil
    /\ \E li \in LiveIts(M) : ItNext(M, li) = MapEnd(M) /\ li.node # last.it.node
    /\ heap[MapBegin(M).node].n < maxNodes

\* C37: RemoveIter on a live iterator removes in place exactly when the
\* iterator's leaf is the root or has more than keyDegr entries, and then
\* changes only the entries of that leaf and Len(): no other node, no
\* routing key, child array or leaf link, and neither root, front nor back
\* changes; it falls back to remove by key exactly when the leaf is not the
\* root and has exactly keyDegr entries.
C37_RemoveInPlace ==
    [][(last'.op = "RemoveIter" /\ last'.ok) =>
          \A x \in {y \in Range(Leaves(M)) : last'.key \in Range(Keys(heap[y]))} :
             /\ "inPlace" \in last'.ev <=> (x = root \/ heap[x].n > keyDegr)
             /\ "byKey" \in last'.ev <=> (x # root /\ heap[x].n = keyDegr)
             /\ "inPlace" \in last'.ev <=> "byKey" \notin last'.ev
             /\ "inPlace" \in last'.ev =>
                   /\ last'.ev = {"inPlace"}
                   /\ last'.tr = {}
                   /\ root' = root
                   /\ front' = front
                   /\ back' = back
                   /\ n' = n - 1
                   /\ Len(heap') = Len(heap)
                   /\ \A y \in (1..Len(heap)) \ {x} : heap'[y] = heap[y]
                   /\ heap'[x].leaf
                   /\ heap'[x].next = heap[x].next
                   /\ heap'[x].prev = heap[x].prev
                   /\ heap'[x].nodes = heap[x].nodes
                   /\ heap'[x].n = heap[x].n - 1
                   /\ Entries(M, x)'
                        = SelectSeq(Entries(M, x), LAMBDA e : e[1] # last'.key)
      ]_vars

C37_Witness ==
    /\ last.op = "RemoveIter"
    /\ last.ok
    /\ last.ev = {"inPlace"}
    /\ Height(M) = 3
    /\ IsLive(M, last.it)
    /\ heap[last.it.node].n = keyDegr
    /\ last.it.idx = 0
    /\ heap[last.it.node].prev # Nil
    /\ heap[heap[last.it.node].prev].n = 2 * keyDegr - 1

\* C38: in Insert's interior case, after a full child[i] is split, the
\* descent continues into the new right sibling child[i+1] exactly when the
\* new routing[i], the last key of the left half, is less than the key, and
\* otherwise into child[i]; in both cases the key ends up stored under the
\* half entered, at a leaf position that keeps the keys of the map strictly
\* ascending, and the former routing[i] becomes routing[i+1].
C38_DescendAfterSplit ==
    last.op \in {"Insert", "InsertRange"} =>
       /\ \A c \in Calls(last.tr, "splitDescend") :
             /\ c.right <=> c.less
             /\ c.left <=> ~c.less
             /\ c.right # c.left
             /\ c.lastleft
             /\ c.halves
             /\ c.former
             /\ c.under
       /\ (last.op = "Insert" /\ Calls(last.tr, "splitDescend") # {}) =>
             /\ IsLive(M, last.it)
             /\ ItKey(M, last.it) = last.key
             /\ \A ps \in {Pairs(M)} :
                   /\ \A j \in 1..(Len(ps) - 1) : ps[j][1] < ps[j + 1][1]
                   /\ \E j \in 1..Len(ps) : ps[j] = << last.key, last.value >>
                   /\ Len(ps) = n

C38_Witness ==
    /\ last.op = "Insert"
    /\ ~last.ok
    /\ "spine" \notin last.ev
    /\ \E c \in Calls(last.tr, "splitDescend") : c.right /\ c.less /\ c.former /\ c.under
    /\ \E k \in DOMAIN ref : k > last.key
    /\ last.it.idx > 0

====
